---- MODULE Spec2Model ----
(***************************************************************************)
(* Model of the Thoughbot repository: the graph executor of pocketflow.py  *)
(* (Flow, BatchFlow, Retry), the plan validator and the chain-of-thought   *)
(* node of nodes.py.                                                       *)
(*                                                                         *)
(* Python dicts are functions whose DOMAIN is the set of keys present.     *)
(* Python lists are sequences.  None is the string NoneVal.                *)
(***************************************************************************)
EXTENDS Integers, Sequences, FiniteSets, TLC

VARIABLES
    edges,          \* Flow._edges: action -> node
    max_parallel,   \* BatchFlow.run's max_parallel (0 models None)
    permits,        \* the value of each asyncio.Semaphore in use
    fl,             \* one entry per Flow.run coroutine
    order,          \* the Flow.run coroutines in order of completion
    batch,          \* the asyncio.gather future of BatchFlow.run
    rt,             \* one Retry.__call__ coroutine
    pv,             \* one plan under validation
    ctx,            \* the Context dict shared by the invocations of a run
    cot,            \* the ChainOfThoughtNode, its Params and collaborators
    ps,             \* one call of _parse_llm_response: its text and outcome
    sc,             \* one call of WebScraper.scrape_multiple_urls
    px,             \* one call of ParallelExploreNode
    lp,             \* the run_once coroutine of main.py
    sh              \* the invocations of sibling runs suspended in one Context

flowVars == <<edges, max_parallel, permits, fl, order, batch>>
retryVars == <<rt>>
planVars == <<pv>>
cotVars == <<ctx, cot>>
parseVars == <<ps>>
scrapeVars == <<sc>>
exploreVars == <<px>>
loopVars == <<lp>>
sharedVars == <<sh>>
vars == <<edges, max_parallel, permits, fl, order, batch, rt, pv, ctx, cot, ps, sc, px, lp, sh>>

(***************************************************************************)
(* Bounds                                                                  *)
(***************************************************************************)
MaxVisits == 3      \* node invocations of one Flow.run
MaxBatchVisits == 2 \* node invocations of one Flow.run under BatchFlow
MaxParams == 2      \* entries of params_list
MaxParallel == 2    \* largest max_parallel
MaxTries == 3       \* largest tries argument of Retry
MaxPlanSteps == 3   \* steps of a plan, over all nesting depths
MaxThoughts == 2    \* invocations of the reasoning node in one run
MaxSegs == 3        \* pieces of one response text
MaxSearchThoughts == 3  \* invocations in a run of the searching service
MaxUrls == 2        \* URLs in one call of scrape_multiple_urls
MaxRetries == 3     \* largest max_retries of a WebScraper
MaxSubProblems == 3 \* sub-problems of one ParallelExplore call
MaxSubVisits == 2   \* invocations of the reasoning unit in one sub-run
MaxLoopVisits == 3  \* invocations of the reasoning unit in one run_once
MaxSharedVisits == 2 \* invocations of one sibling run on the shared Context

NoneVal == "<None>"
NoNode == "<no node>"
NoExc == 0

Nodes == {"S", "A", "B"}
StartNode == "S"
Actions == {"continue", "explore", "spawn"}
Values == {"v1", "v2"}

(***************************************************************************)
(* pocketflow.py: Flow                                                     *)
(***************************************************************************)

\* The edge tables Flow.edge can build over two actions.
EdgeTables == UNION {[D -> Nodes] : D \in SUBSET {"continue", "explore"}}

\* BatchFlow builds its Flow from the start node alone; a self edge is the
\* only table a caller can add to it without another node.
BatchEdgeTables == UNION {[D -> {StartNode}] : D \in SUBSET {"continue"}}

\* self._edges.get(action)
EdgesGetStart(table, action) == StartNode
EdgesGet(table, action) ==
    IF action \in DOMAIN table THEN table[action] ELSE NoNode

\* sem = semaphore or asyncio.Semaphore(1_000_000): the semaphore (index into
\* permits) that coroutine i acquires.  Index 0 is BatchFlow's shared one.
DefaultPermits == 1000000
SemOfPrivate(i) == i
SemOf(i) == IF max_parallel # 0 THEN 0 ELSE i

NewRun ==
    [pc |-> "acquire", node |-> StartNode, depth |-> 0, calls |-> <<>>,
     result |-> NoneVal, exc |-> NoExc]

\* async with sem: entering a _visit frame takes a permit, or waits for one.
FlowAcquire(i) ==
    /\ i \in DOMAIN fl
    /\ fl[i].pc = "acquire"
    /\ permits[SemOf(i)] > 0
    /\ permits' = [permits EXCEPT ![SemOf(i)] = @ - 1]
    /\ fl' = [fl EXCEPT ![i].pc = "invoke", ![i].depth = @ + 1]
    /\ UNCHANGED <<edges, max_parallel, order, batch>>

\* The value a run returns once an action has no edge: the value of the
\* innermost _visit, handed up unchanged through every enclosing frame.
RunValueFirst(calls, value) == IF calls = <<>> THEN value ELSE calls[1].value
RunValue(calls, value) == value

\* action, value = await node(ctx, params); next_node = self._edges.get(action);
\* return (await _visit(next_node)) if next_node else value.
\* With no next node every frame of the run returns and releases its permit.
NodeReturns(i, action, value, cap) ==
    /\ i \in DOMAIN fl
    /\ fl[i].pc = "invoke"
    /\ LET call == [node |-> fl[i].node, action |-> action, value |-> value]
           next == EdgesGet(edges, action)
       IN  IF next # NoNode
           THEN /\ Len(fl[i].calls) + 1 < cap
                /\ fl' = [fl EXCEPT ![i].pc = "acquire", ![i].node = next,
                                    ![i].calls = Append(@, call)]
                /\ UNCHANGED <<permits, order>>
           ELSE /\ fl' = [fl EXCEPT ![i].pc = "done", ![i].depth = 0,
                                    ![i].calls = Append(@, call),
                                    ![i].result = RunValue(fl[i].calls, value)]
                /\ permits' = [permits EXCEPT ![SemOf(i)] = @ + fl[i].depth]
                /\ order' = Append(order, i)
    /\ UNCHANGED <<edges, max_parallel, batch>>

\* await node(ctx, params) raises: the exception leaves every frame of the
\* run, each releasing its permit, and Flow.run raises it.
NodeRaises(i) ==
    /\ i \in DOMAIN fl
    /\ fl[i].pc = "invoke"
    /\ fl' = [fl EXCEPT ![i].pc = "failed", ![i].depth = 0, ![i].exc = i]
    /\ permits' = [permits EXCEPT ![SemOf(i)] = @ + fl[i].depth]
    /\ order' = Append(order, i)
    /\ UNCHANGED <<edges, max_parallel, batch>>

\* A node of a single run returns any action; under BatchFlow the nodes
\* return an action of the self edge or one without an edge.
FlowInvoke(i) ==
    \E a \in Actions, v \in Values : NodeReturns(i, a, v, MaxVisits)
BatchInvoke(i) ==
    \E a \in {"continue", "spawn"}, v \in Values :
        NodeReturns(i, a, v, MaxBatchVisits)

(***************************************************************************)
(* pocketflow.py: BatchFlow                                                *)
(***************************************************************************)

\* asyncio.gather(*coros): the results in the order of the arguments.
GatherResultsByCompletion == [k \in DOMAIN fl |-> fl[order[k]].result]
GatherResults == [k \in DOMAIN fl |-> fl[k].result]

\* gather completes with the list once every coroutine has returned.
GatherReturnPartial ==
    /\ batch.pc = "gathering"
    /\ \A i \in DOMAIN fl : fl[i].pc \in {"done", "failed"}
    /\ batch' = [pc |-> "returned", results |-> GatherResults, exc |-> NoExc]
    /\ UNCHANGED <<edges, max_parallel, permits, fl, order>>
GatherReturn ==
    /\ batch.pc = "gathering"
    /\ \A i \in DOMAIN fl : fl[i].pc = "done"
    /\ batch' = [pc |-> "returned", results |-> GatherResults, exc |-> NoExc]
    /\ UNCHANGED <<edges, max_parallel, permits, fl, order>>

\* gather (return_exceptions=False) raises the first exception a coroutine
\* raised, at once; the other coroutines are not cancelled and run on.
GatherRaise ==
    /\ batch.pc = "gathering"
    /\ \E k \in DOMAIN order :
          /\ fl[order[k]].pc = "failed"
          /\ \A j \in 1..(k - 1) : fl[order[j]].pc # "failed"
          /\ batch' = [pc |-> "raised", results |-> <<>>,
                       exc |-> fl[order[k]].exc]
    /\ UNCHANGED <<edges, max_parallel, permits, fl, order>>

NoBatch == [pc |-> "none", results |-> <<>>, exc |-> NoExc]

\* await flow.run(ctx, params): one run, with a semaphore of its own.
FlowInit ==
    /\ edges \in EdgeTables
    /\ max_parallel = 0
    /\ fl = <<NewRun>>
    /\ permits = [s \in 0..1 |-> IF s = 0 THEN 0 ELSE DefaultPermits]
    /\ order = <<>>
    /\ batch = NoBatch

\* BatchFlow.run(ctx, params_list, max_parallel=...): one Flow.run per entry.
BatchInit ==
    /\ edges \in BatchEdgeTables
    /\ max_parallel \in 0..MaxParallel
    /\ \E n \in 0..MaxParams :
          /\ fl = [i \in 1..n |-> NewRun]
          /\ permits = [s \in 0..n |->
                           IF s = 0 THEN max_parallel ELSE DefaultPermits]
    /\ order = <<>>
    /\ batch = [pc |-> "gathering", results |-> <<>>, exc |-> NoExc]

FlowIdle ==
    /\ edges = <<>>
    /\ max_parallel = 0
    /\ fl = <<>>
    /\ permits = <<>>
    /\ order = <<>>
    /\ batch = NoBatch

(***************************************************************************)
(* pocketflow.py: Retry                                                    *)
(***************************************************************************)

\* self.tries = max(tries, 1)
RetryTries(tries) == IF tries > 1 THEN tries ELSE 1

\* What follows one await self._inner(ctx, p) of the loop body.
RetryStepRaiseEarly(ok, attempt, tries) ==
    IF ok THEN "returned"
    ELSE IF attempt >= tries - 2 THEN "raised" ELSE "sleeping"
RetryStepNeverFinal(ok, attempt, tries) ==
    IF ok THEN "returned"
    ELSE IF attempt = tries THEN "raised" ELSE "sleeping"
RetryStep(ok, attempt, tries) ==
    IF ok THEN "returned"
    ELSE IF attempt = tries - 1 THEN "raised" ELSE "sleeping"

\* 1.5 * (0.5 + 0.5 * hash((id(self), attempt)) % 1), in quarters: the
\* product 0.5 * hash is a float and % 1 leaves its fraction, 0.0 or 0.5.
JitterQuarters == {3, 6}

\* inner: the outcome of every invocation of the inner node so far.
\* slept: the delay of every asyncio.sleep so far, as a fraction of backoff.
\* result: the (action, value) pair returned; NoResult while there is none
\* and when the coroutine returns None.
NoResult == <<>>
NewRetry(tries, jitter) ==
    [pc |-> "try", tries |-> RetryTries(tries), jitter |-> jitter,
     attempt |-> 0, inner |-> <<>>, slept |-> <<>>,
     delay |-> [num |-> 1, den |-> 1],
     result |-> NoResult, exc |-> NoExc]

\* return await self._inner(ctx, p), the inner node returning (action, value)
RetryInnerReturns ==
    /\ rt.pc = "try"
    /\ \E a \in Actions, v \in Values :
          rt' = [rt EXCEPT !.pc = RetryStep(TRUE, rt.attempt, rt.tries),
                           !.inner = Append(@, [ok |-> TRUE, ret |-> <<a, v>>]),
                           !.result = <<a, v>>]
    /\ UNCHANGED <<flowVars, planVars, cotVars, parseVars, scrapeVars, exploreVars, loopVars, sharedVars>>

\* except Exception as exc: raise on the last attempt, else go to sleep.
\* The exception of the k-th invocation of inner is numbered k.
RetryInnerRaises ==
    /\ rt.pc = "try"
    /\ LET to == RetryStep(FALSE, rt.attempt, rt.tries)
       IN  rt' = [rt EXCEPT !.pc = to,
                            !.inner = Append(@, [ok |-> FALSE, ret |-> NoResult]),
                            !.exc = IF to = "raised" THEN Len(rt.inner) + 1
                                    ELSE @]
    /\ UNCHANGED <<flowVars, planVars, cotVars, parseVars, scrapeVars, exploreVars, loopVars, sharedVars>>

\* await asyncio.sleep(delay); the delay is scaled only when jitter is set;
\* then the next attempt of range(self.tries), or the end of the loop, where
\* the coroutine returns None.
RetrySleep ==
    /\ rt.pc = "sleeping"
    /\ \E q \in JitterQuarters :
          rt' = [rt EXCEPT
                   !.slept = Append(@, rt.delay),
                   !.delay = IF rt.jitter
                             THEN [num |-> rt.delay.num * q,
                                   den |-> rt.delay.den * 4]
                             ELSE @,
                   !.attempt = @ + 1,
                   !.pc = IF rt.attempt + 1 < rt.tries THEN "try"
                          ELSE "returned"]
    /\ UNCHANGED <<flowVars, planVars, cotVars, parseVars, scrapeVars, exploreVars, loopVars, sharedVars>>

RetryInit ==
    \E t \in 0..MaxTries, j \in BOOLEAN : rt = NewRetry(t, j)

RetryIdle == rt = NewRetry(1, FALSE)

(***************************************************************************)
(* nodes.py: plans and their validation                                    *)
(***************************************************************************)

\* A step is a dict over these keys; sub_steps, when present, is a list of
\* steps, every other value is text or None.
ValidStatuses == {"Pending", "Done", "Verification Needed", "Search Needed"}

\* not value, for text and None
Truthy(v) == v # "" /\ v # NoneVal

\* Steps without filled sub_steps: each status with its companion field
\* filled, empty or missing, and steps lacking a description or a status.
LeafSteps ==
    { [description |-> "d", status |-> "Pending"],
      [description |-> "d", status |-> "Pending", sub_steps |-> <<>>],
      [description |-> "d", status |-> "Done", result |-> "r"],
      [description |-> "d", status |-> "Done"],
      [description |-> "d", status |-> "Done", result |-> ""],
      [description |-> "d", status |-> "Search Needed", query |-> "q"],
      [description |-> "d", status |-> "Search Needed"],
      [description |-> "d", status |-> "Verification Needed", mark |-> "m"],
      [description |-> "d", status |-> "Verification Needed", mark |-> ""],
      [status |-> "Done", result |-> "r"],
      [description |-> "d"],
      [description |-> "d", status |-> "Bogus", result |-> "r"] }

\* d with d[key] = value
DictSet(d, key, value) ==
    [k \in DOMAIN d \cup {key} |-> IF k = key THEN value ELSE d[k]]

\* d without key
DictDel(d, key) == [k \in DOMAIN d \ {key} |-> d[k]]

RECURSIVE ValidatePlanStep(_), ValidateSteps(_, _)
RECURSIVE ValidateStepsKeepGoing(_, _)

\* _validate_plan_step: "ok", or the ValueError it raises.
ValidatePlanStepShallow(step) ==
    IF "description" \notin DOMAIN step THEN "missing description"
    ELSE IF "status" \notin DOMAIN step THEN "missing status"
    ELSE IF step.status \notin ValidStatuses THEN "invalid status"
    ELSE IF step.status = "Done"
            /\ ("result" \notin DOMAIN step \/ ~Truthy(step.result))
    THEN "Done without result"
    ELSE IF step.status = "Search Needed"
            /\ ("query" \notin DOMAIN step \/ ~Truthy(step.query))
    THEN "Search Needed without query"
    ELSE IF step.status = "Verification Needed"
            /\ ("mark" \notin DOMAIN step \/ ~Truthy(step.mark))
    THEN "Verification Needed without mark"
    ELSE "ok"
ValidatePlanStep(step) ==
    IF "description" \notin DOMAIN step THEN "missing description"
    ELSE IF "status" \notin DOMAIN step THEN "missing status"
    ELSE IF step.status \notin ValidStatuses THEN "invalid status"
    ELSE IF step.status = "Done"
            /\ ("result" \notin DOMAIN step \/ ~Truthy(step.result))
    THEN "Done without result"
    ELSE IF step.status = "Search Needed"
            /\ ("query" \notin DOMAIN step \/ ~Truthy(step.query))
    THEN "Search Needed without query"
    ELSE IF step.status = "Verification Needed"
            /\ ("mark" \notin DOMAIN step \/ ~Truthy(step.mark))
    THEN "Verification Needed without mark"
    ELSE IF "sub_steps" \in DOMAIN step /\ step.sub_steps # <<>>
    THEN ValidateSteps(step.sub_steps, 1)
    ELSE "ok"

\* for step in steps: self._validate_plan_step(step), from the k-th step on:
\* the first error raised, or "ok".
ValidateStepsKeepGoing(steps, k) ==
    IF k > Len(steps) THEN "ok"
    ELSE LET rest == ValidateStepsKeepGoing(steps, k + 1)
         IN  IF rest # "ok" THEN rest ELSE ValidatePlanStep(steps[k])
ValidateSteps(steps, k) ==
    IF k > Len(steps) THEN "ok"
    ELSE LET r == ValidatePlanStep(steps[k])
         IN  IF r # "ok" THEN r ELSE ValidateSteps(steps, k + 1)

\* The plan loop of _validate_response.
ValidatePlan(plan) == ValidateSteps(plan, 1)

RECURSIVE StepPaths(_), StepAt(_, _), DelKeyAt(_, _, _), AppendAt(_, _, _)
\* The positions of all steps of a list of steps, at every depth: a position
\* is the sequence of list indices leading to the step.
StepPaths(steps) ==
    UNION {{<<k>>} \cup
           (IF "sub_steps" \in DOMAIN steps[k]
            THEN {<<k>> \o p : p \in StepPaths(steps[k].sub_steps)}
            ELSE {}) : k \in DOMAIN steps}

StepAt(steps, path) ==
    IF Len(path) = 1 THEN steps[path[1]]
    ELSE StepAt(steps[path[1]].sub_steps, Tail(path))

\* The list of steps with one key of the step at path deleted.
DelKeyAt(steps, path, key) ==
    IF Len(path) = 1
    THEN [steps EXCEPT ![path[1]] = DictDel(@, key)]
    ELSE [steps EXCEPT ![path[1]] =
             DictSet(@, "sub_steps", DelKeyAt(@.sub_steps, Tail(path), key))]

\* The list of steps with one more step, at the end of the list itself
\* (path <<>>) or of the sub_steps of the step at path.
AppendAt(steps, path, step) ==
    IF path = <<>> THEN Append(steps, step)
    ELSE [steps EXCEPT ![path[1]] =
             DictSet(@, "sub_steps",
                     AppendAt(IF "sub_steps" \in DOMAIN @ THEN @.sub_steps
                              ELSE <<>>, Tail(path), step))]

\* pv.plan is the plan, pv.res the outcome of its validation ("none" before
\* it ran), pv.removed the position whose result was deleted (<<>> if none).
PlanInit ==
    \E p \in {<<>>} \cup {<<l>> : l \in LeafSteps} :
        pv = [plan |-> p, res |-> "none", removed |-> <<>>]

PlanIdle == pv = [plan |-> <<>>, res |-> "none", removed |-> <<>>]

\* The plan a response carries grows by one step, at any depth.
PlanAddStep ==
    /\ pv.res = "none"
    /\ pv.removed = <<>>
    /\ Cardinality(StepPaths(pv.plan)) < MaxPlanSteps
    /\ \E path \in {<<>>} \cup StepPaths(pv.plan), l \in LeafSteps :
          pv' = [pv EXCEPT !.plan = AppendAt(pv.plan, path, l)]

\* for step in response["planning"]: self._validate_plan_step(step)
PlanValidate ==
    /\ pv.res = "none"
    /\ pv' = [pv EXCEPT !.res = ValidatePlan(pv.plan)]

\* A caller deletes the result of one Done step of a plan found valid and
\* hands the plan to the validator again.
PlanRemoveResult ==
    /\ pv.res = "ok"
    /\ pv.removed = <<>>
    /\ \E path \in StepPaths(pv.plan) :
          /\ StepAt(pv.plan, path).status = "Done"
          /\ pv' = [plan |-> DelKeyAt(pv.plan, path, "result"),
                    res |-> "none", removed |-> path]

(***************************************************************************)
(* nodes.py: ChainOfThoughtNode                                            *)
(***************************************************************************)

\* What call_llm returns is a dict d; illTyped names the keys whose value
\* has another type than the schema's (a current_thinking that is no str, a
\* planning that is no list, a next_thought_needed that is no bool).
Response(d, illTyped) == [d |-> d, illTyped |-> illTyped]

RequiredFields == <<"current_thinking", "planning", "next_thought_needed">>

\* _validate_response: "ok", or the ValueError it raises.
ValidateResponseNoPlan(r) ==
    IF \E k \in 1..3 : RequiredFields[k] \notin DOMAIN r.d
    THEN "missing required field"
    ELSE IF "current_thinking" \in r.illTyped
    THEN "current_thinking must be a string"
    ELSE IF "planning" \in r.illTyped THEN "planning must be a list"
    ELSE IF "next_thought_needed" \in r.illTyped
    THEN "next_thought_needed must be a boolean"
    ELSE IF ~r.d.next_thought_needed /\ "final_answer" \notin DOMAIN r.d
    THEN "final response without final_answer"
    ELSE "ok"
ValidateResponse(r) ==
    IF \E k \in 1..3 : RequiredFields[k] \notin DOMAIN r.d
    THEN "missing required field"
    ELSE IF "current_thinking" \in r.illTyped
    THEN "current_thinking must be a string"
    ELSE IF "planning" \in r.illTyped THEN "planning must be a list"
    ELSE IF "next_thought_needed" \in r.illTyped
    THEN "next_thought_needed must be a boolean"
    ELSE IF ~r.d.next_thought_needed /\ "final_answer" \notin DOMAIN r.d
    THEN "final response without final_answer"
    ELSE ValidatePlan(r.d.planning)

\* step.get(key)
DictGet(d, key) == IF key \in DOMAIN d THEN d[key] ELSE NoneVal

\* d.update(e)
DictUpdate(d, e) ==
    [k \in DOMAIN d \cup DOMAIN e |-> IF k \in DOMAIN e THEN e[k] ELSE d[k]]

\* The default a step gets for the companion of status when it lacks the key.
FixDefault(step, status, key, value) ==
    IF DictGet(step, "status") = status /\ key \notin DOMAIN step
    THEN DictSet(step, key, value) ELSE step

\* The inner loop of _fix_llm_response: result and query of a sub-step.
FixSubStep(sub) ==
    FixDefault(FixDefault(sub, "Done", "result", "Completed"),
               "Search Needed", "query", "information needed")

\* The outer loop of _fix_llm_response: result, query and mark of a step,
\* then its sub_steps.
FixStep(step) ==
    LET a == FixDefault(step, "Done", "result", "Completed")
        b == FixDefault(a, "Search Needed", "query", "information needed")
        c == FixDefault(b, "Verification Needed", "mark",
                        "Verification required")
    IN  IF "sub_steps" \in DOMAIN c
        THEN DictSet(c, "sub_steps",
                     [k \in DOMAIN c.sub_steps |-> FixSubStep(c.sub_steps[k])])
        ELSE c

\* _fix_llm_response
FixLlmResponse(r) ==
    IF "planning" \in DOMAIN r.d /\ "planning" \notin r.illTyped
    THEN Response(DictSet(r.d, "planning",
                          [k \in DOMAIN r.d.planning |->
                              FixStep(r.d.planning[k])]),
                  r.illTyped)
    ELSE r

RECURSIVE PlanQueries(_, _), PlanResults(_, _), JoinLines(_)

\* extract_queries_from_plan, from the k-th step of the list on: the queries
\* of the Search Needed steps in pre-order.
PlanQueries(plan, k) ==
    IF k > Len(plan) THEN <<>>
    ELSE LET step == plan[k]
             own == IF DictGet(step, "status") = "Search Needed"
                       /\ Truthy(DictGet(step, "query"))
                    THEN <<step.query>> ELSE <<>>
             below == IF "sub_steps" \in DOMAIN step /\ step.sub_steps # <<>>
                      THEN PlanQueries(step.sub_steps, 1) ELSE <<>>
         IN  own \o below \o PlanQueries(plan, k + 1)

\* _extract_search_queries
RECURSIVE ExtractSearchQueriesOfAll(_)
ExtractSearchQueriesOfAll(thoughts) ==
    IF thoughts = <<>> THEN <<>>
    ELSE LET last == thoughts[Len(thoughts)].d
         IN  ExtractSearchQueriesOfAll(SubSeq(thoughts, 1, Len(thoughts) - 1))
             \o (IF "planning" \in DOMAIN last
                 THEN PlanQueries(last.planning, 1) ELSE <<>>)
ExtractSearchQueries(thoughts) ==
    IF thoughts = <<>> THEN <<>>
    ELSE LET last == thoughts[Len(thoughts)].d
         IN  IF "planning" \in DOMAIN last THEN PlanQueries(last.planning, 1)
             ELSE <<>>

Range(seq) == {seq[k] : k \in DOMAIN seq}

\* What search_client.search and parse_web_results give for one query: an
\* exception, or a list of results.
Urls == {"u1", "u2"}
WebResult(u) == [title |-> "title", description |-> "text", url |-> u]
SearchOutcomes ==
    { [ok |-> FALSE, results |-> <<>>],
      [ok |-> TRUE, results |-> <<>>],
      [ok |-> TRUE, results |-> <<WebResult("u1")>>],
      [ok |-> TRUE, results |-> <<WebResult("u1"), WebResult("u2")>>] }

RECURSIVE PerformSearchesFrom(_, _, _, _, _)
\* The loop of _perform_searches from the k-th query on; outcome[k] is what
\* the search client does if it is called for the k-th query.  acc.results is
\* the dict built so far, acc.searched the calls made of the client, each with
\* its query and whether it returned.
PerformSearchesFrom(queries, previous_results, outcome, k, acc) ==
    IF k > Len(queries) THEN acc
    ELSE LET q == queries[k]
         IN  PerformSearchesFrom(queries, previous_results, outcome, k + 1,
                IF q \in DOMAIN previous_results
                THEN [acc EXCEPT !.results =
                         DictSet(@, q, previous_results[q])]
                ELSE [results |-> DictSet(acc.results, q, outcome[k].results),
                      searched |-> Append(acc.searched,
                                          [query |-> q, ok |-> outcome[k].ok])])

\* _perform_searches
PerformSearchesKeepFailed(queries, previous_results, outcome) ==
    PerformSearchesFrom(queries, previous_results,
                        [k \in DOMAIN outcome |->
                            IF outcome[k].ok THEN outcome[k]
                            ELSE [ok |-> FALSE, results |-> <<WebResult("u1")>>]],
                        1, [results |-> <<>>, searched |-> <<>>])
PerformSearchesUncached(queries, previous_results, outcome) ==
    PerformSearchesFrom(queries, <<>>, outcome, 1,
                        [results |-> <<>>, searched |-> <<>>])
PerformSearches(queries, previous_results, outcome) ==
    PerformSearchesFrom(queries, previous_results, outcome, 1,
                        [results |-> <<>>, searched |-> <<>>])

RECURSIVE Dedup(_), Concat(_, _)
\* The list without the later copies of its elements.
Dedup(seq) ==
    IF seq = <<>> THEN <<>>
    ELSE LET front == Dedup(SubSeq(seq, 1, Len(seq) - 1))
             x == seq[Len(seq)]
         IN  IF x \in Range(front) THEN front ELSE Append(front, x)

\* f[1] \o ... \o f[n], for lists f[k]
Concat(f, n) == IF n = 0 THEN <<>> ELSE Concat(f, n - 1) \o f[n]

\* The urls_to_scrape of _scrape_search_results: the dict search_results is
\* walked in insertion order, which is the order of the queries.
UrlsToScrapeAgain(queries, search_results, previous_content, max_scraped_urls) ==
    LET keys == Dedup(queries)
        top(q) == SubSeq(search_results[q], 1,
                         IF Len(search_results[q]) < max_scraped_urls
                         THEN Len(search_results[q]) ELSE max_scraped_urls)
        urlsOf(q) == [j \in DOMAIN top(q) |-> top(q)[j].url]
        all == Concat([k \in DOMAIN keys |-> urlsOf(keys[k])], Len(keys))
    IN  Dedup(SelectSeq(all, Truthy))
UrlsToScrape(queries, search_results, previous_content, max_scraped_urls) ==
    LET keys == Dedup(queries)
        top(q) == SubSeq(search_results[q], 1,
                         IF Len(search_results[q]) < max_scraped_urls
                         THEN Len(search_results[q]) ELSE max_scraped_urls)
        urlsOf(q) == [j \in DOMAIN top(q) |-> top(q)[j].url]
        all == Concat([k \in DOMAIN keys |-> urlsOf(keys[k])], Len(keys))
        fresh(u) == Truthy(u) /\ u \notin DOMAIN previous_content
    IN  Dedup(SelectSeq(all, fresh))

\* The entry _scrape_search_results makes of what the scraper returned.
Scraped(u, success) ==
    IF success THEN [title |-> "title", content |-> "content", url |-> u]
    ELSE [title |-> "Error", content |-> "Error scraping content", url |-> u]

\* _extract_plan_results, from the k-th step on
PlanResults(plan, k) ==
    IF k > Len(plan) THEN <<>>
    ELSE LET step == plan[k]
             own == IF DictGet(step, "status") = "Done"
                       /\ "result" \in DOMAIN step
                    THEN <<"- " \o step.description \o ": " \o step.result>>
                    ELSE <<>>
             below == IF "sub_steps" \in DOMAIN step
                      THEN PlanResults(step.sub_steps, 1) ELSE <<>>
         IN  own \o below \o PlanResults(plan, k + 1)

\* "\n".join(parts)
JoinLines(parts) ==
    IF parts = <<>> THEN ""
    ELSE IF Len(parts) = 1 THEN parts[1]
    ELSE parts[1] \o "\n" \o JoinLines(Tail(parts))

\* _extract_final_solution; no thinking text of the model has a "Source:"
\* line, so _extract_sources finds none.
ExtractFinalSolutionSynthesised(final_response, all_thoughts) ==
    LET results == PlanResults(final_response.planning, 1)
    IN  JoinLines(<<final_response.current_thinking>> \o
                  (IF results # <<>> THEN <<"\nKey Findings:">> \o results
                   ELSE <<>>))
ExtractFinalSolution(final_response, all_thoughts) ==
    IF "final_answer" \in DOMAIN final_response
    THEN final_response.final_answer
    ELSE LET results == PlanResults(final_response.planning, 1)
         IN  JoinLines(<<final_response.current_thinking>> \o
                       (IF results # <<>> THEN <<"\nKey Findings:">> \o results
                        ELSE <<>>))

\* The action __call__ returns for a recorded response.
CotActionExplore(d) == IF ~d.next_thought_needed THEN "end" ELSE "explore"
CotAction(d) == IF ~d.next_thought_needed THEN "end" ELSE "continue"

\* if "problem" not in ctx: the first invocation fills the shared store.
EmptyCtx == <<>>
CtxReinitialised(c, params) ==
    [problem |-> IF "problem" \in DOMAIN params THEN params.problem ELSE "",
     thoughts |-> IF "thoughts" \in DOMAIN c THEN c.thoughts ELSE <<>>,
     current_thought_number |-> 0,
     solution |-> NoneVal,
     search_results |-> <<>>,
     scraped_content |-> <<>>]
CtxInitialisedAfresh(c, params) ==
    [problem |-> IF "problem" \in DOMAIN params THEN params.problem ELSE "",
     thoughts |-> <<>>,
     current_thought_number |-> 0,
     solution |-> NoneVal,
     search_results |-> <<>>,
     scraped_content |-> <<>>]
CtxInitialisedEveryCall(c, params) ==
    LET problem == IF "problem" \in DOMAIN params THEN params.problem ELSE ""
    IN  IF "problem" \in DOMAIN c THEN [c EXCEPT !.problem = problem]
        ELSE [problem |-> problem,
              thoughts |-> <<>>,
              current_thought_number |-> 0,
              solution |-> NoneVal,
              search_results |-> <<>>,
              scraped_content |-> <<>>]
CtxInitialised(c, params) ==
    IF "problem" \in DOMAIN c THEN c
    ELSE [problem |-> IF "problem" \in DOMAIN params THEN params.problem
                      ELSE "",
          thoughts |-> <<>>,
          current_thought_number |-> 0,
          solution |-> NoneVal,
          search_results |-> <<>>,
          scraped_content |-> <<>>]

\* The plans of the responses the completion service gives in the model:
\* valid plans (flat, nested, three deep, with queries), plans the fix pass
\* repairs, and plans it leaves invalid.
StepPending == [description |-> "d", status |-> "Pending"]
ResponsePlans ==
    { <<>>,
      <<StepPending>>,
      <<[description |-> "d", status |-> "Done", result |-> "r"],
        [description |-> "d", status |-> "Search Needed", query |-> "q1",
         sub_steps |-> <<[description |-> "d", status |-> "Search Needed",
                          query |-> "q2"]>>]>>,
      <<[description |-> "d", status |-> "Pending", sub_steps |->
          <<[description |-> "d", status |-> "Pending", sub_steps |->
              <<[description |-> "d", status |-> "Verification Needed",
                 mark |-> "m"]>>]>>]>>,
      <<[description |-> "d", status |-> "Done"]>>,
      <<[description |-> "d", status |-> "Search Needed"]>>,
      <<[description |-> "d", status |-> "Verification Needed"]>>,
      <<[description |-> "d", status |-> "Pending", sub_steps |->
          <<[description |-> "d", status |-> "Done"]>>]>>,
      <<[description |-> "d", status |-> "Pending", sub_steps |->
          <<[description |-> "d", status |-> "Verification Needed"]>>]>>,
      <<[description |-> "d", status |-> "Pending", sub_steps |->
          <<[description |-> "d", status |-> "Pending", sub_steps |->
              <<[description |-> "d", status |-> "Done"]>>]>>]>>,
      <<[description |-> "d", status |-> "Done", result |-> ""]>>,
      <<[description |-> "d", status |-> "Bogus"]>>,
      <<[status |-> "Pending"]>> }

\* The responses: every plan in a continuing thought, in a final thought
\* with its answer and in one without, and thoughts with a field missing or
\* of the wrong type.
Responses ==
    { Response([current_thinking |-> "t", planning |-> p,
                next_thought_needed |-> TRUE], {}) : p \in ResponsePlans }
    \cup
    { Response([current_thinking |-> "t", planning |-> p,
                next_thought_needed |-> FALSE, final_answer |-> "4"], {}) :
          p \in ResponsePlans }
    \cup
    { Response([current_thinking |-> "t", planning |-> p,
                next_thought_needed |-> FALSE], {}) : p \in ResponsePlans }
    \cup
    { Response([planning |-> <<StepPending>>,
                next_thought_needed |-> TRUE], {}),
      Response([current_thinking |-> "t",
                next_thought_needed |-> TRUE], {}),
      Response([current_thinking |-> "t",
                planning |-> <<StepPending>>], {}),
      Response([current_thinking |-> "t", planning |-> <<StepPending>>,
                next_thought_needed |-> TRUE], {"current_thinking"}),
      Response([current_thinking |-> "t", planning |-> <<>>,
                next_thought_needed |-> TRUE], {"planning"}),
      Response([current_thinking |-> "t", planning |-> <<StepPending>>,
                next_thought_needed |-> TRUE], {"next_thought_needed"}),
      Response([current_thinking |-> "t", planning |-> <<StepPending>>,
                next_thought_needed |-> FALSE, final_answer |-> ""], {}),
      Response([current_thinking |-> "t", planning |-> <<StepPending>>,
                next_thought_needed |-> TRUE, action |-> "explore"], {}) }

\* What call_llm does: it raises (no API key, transport or parse failure)
\* or returns a response.
LlmOutcomes ==
    {[raises |-> TRUE, response |-> Response(<<>>, {})]} \cup
    {[raises |-> FALSE, response |-> r] : r \in Responses}

\* A completion service whose plans ask for searches: one query after a Done
\* step that still carries a query, the same query twice, a query with a
\* second one below it.
SearchStep(q) == [description |-> "d", status |-> "Search Needed", query |-> q]
SearchPlans ==
    { <<[description |-> "d", status |-> "Done", result |-> "r",
         query |-> "q2"], SearchStep("q1")>>,
      <<SearchStep("q1"), SearchStep("q1")>>,
      <<[description |-> "d", status |-> "Search Needed", query |-> "q1",
         sub_steps |-> <<SearchStep("q2")>>]>> }
SearchLlmOutcomes ==
    {[raises |-> TRUE, response |-> Response(<<>>, {})]} \cup
    {[raises |-> FALSE,
      response |-> Response([current_thinking |-> "t", planning |-> p,
                             next_thought_needed |-> TRUE], {})] :
          p \in SearchPlans} \cup
    {[raises |-> FALSE,
      response |-> Response([current_thinking |-> "t", planning |-> <<>>,
                             next_thought_needed |-> FALSE,
                             final_answer |-> "4"], {})]}

\* The outcomes of call_llm under the service of the run, and the number of
\* invocations the model follows such a run for.
ServiceOutcomes(service) ==
    IF service = "searching" THEN SearchLlmOutcomes ELSE LlmOutcomes
ThoughtCap(service) ==
    IF service = "searching" THEN MaxSearchThoughts ELSE MaxThoughts

\* The thoughts the thoughts_history of an invocation is formatted from, by
\* thought number, with the number of thoughts recorded when it was built.
NoHistory == [recorded |-> 0, covered |-> <<>>]
History(thoughts) ==
    [recorded |-> Len(thoughts),
     covered |-> IF thoughts # <<>>
                 THEN <<thoughts[Len(thoughts)].d.thought_number>>
                 ELSE <<>>]

\* The store an invocation leaves when call_llm or the validation raises:
\* the exception leaves __call__ before the append of line 97.
StoreOnRaiseAppended(c, thoughts) == [c EXCEPT !.thoughts = thoughts]
StoreOnRaise(c, thoughts) == c

\* cot.raw while call_llm has returned nothing.
NoResponse == Response(<<>>, {})

\* cot.last of an invocation that made no search.
NoSearches == [queries |-> <<>>, failed |-> <<>>, results |-> <<>>, urls |-> <<>>]

\* ChainOfThoughtNode.__call__(ctx, p), invoked by the _visit frame of run i.
\* c1: the store after the prep phase.  sr: the searches.  urls, scraped: the
\* scraping.  c2: the store with both caches updated.  checked: the response
\* as validated, after the fix pass if the first validation failed.
\* log: cot with the record of what this invocation asked of its
\* collaborators: the searches (last, searched), the scraping (scrapes) and
\* the one call of call_llm (llm_calls), and of the thoughts its history text
\* was built from (history), and what call_llm returned (raw).
CotInvoke(i) ==
    /\ i \in DOMAIN fl
    /\ fl[i].pc = "invoke"
    /\ LET c0 == CtxInitialised(ctx, cot.params)
           number == c0.current_thought_number + 1
           c1 == [c0 EXCEPT !.current_thought_number = number]
           queries == ExtractSearchQueries(c1.thoughts)
       IN  \E outcome \in [DOMAIN queries -> SearchOutcomes] :
           LET sr == PerformSearches(queries, c1.search_results, outcome)
               urls == UrlsToScrape(queries, sr.results, c1.scraped_content,
                                    cot.max_scraped_urls)
           IN  \E success \in [Range(urls) -> BOOLEAN],
                  llm \in ServiceOutcomes(cot.service) :
               LET scraped == [u \in Range(urls) |-> Scraped(u, success[u])]
                   c2 == IF queries = <<>> THEN c1
                         ELSE [c1 EXCEPT
                                 !.search_results = DictUpdate(@, sr.results),
                                 !.scraped_content = DictUpdate(@, scraped)]
                   failed == [k \in DOMAIN queries |->
                                 /\ queries[k] \notin DOMAIN c1.search_results
                                 /\ ~outcome[k].ok]
                   log == [cot EXCEPT
                             !.searched = @ \o
                                 [k \in DOMAIN sr.searched |->
                                     [query |-> sr.searched[k].query,
                                      ok |-> sr.searched[k].ok,
                                      number |-> number]],
                             !.scrapes = IF urls = <<>> THEN @
                                         ELSE Append(@, urls),
                             !.last = IF queries = <<>> THEN NoSearches
                                      ELSE [queries |-> queries,
                                            failed |-> failed,
                                            results |-> sr.results,
                                            urls |-> urls],
                             !.llm_calls = 1,
                             !.history = History(c1.thoughts),
                             !.raw = llm.response]
                   first == IF llm.raises THEN "call_llm raised"
                            ELSE ValidateResponse(llm.response)
                   checked == IF first = "ok" THEN llm.response
                              ELSE FixLlmResponse(llm.response)
                   error == IF llm.raises \/ first = "ok" THEN first
                            ELSE ValidateResponse(checked)
                   thought == Response(DictSet(checked.d, "thought_number",
                                               number), checked.illTyped)
                   thoughts == Append(c2.thoughts, thought)
               IN  IF error # "ok"
                   THEN /\ ctx' = StoreOnRaise(c2, thoughts)
                        /\ cot' = [log EXCEPT !.error = error]
                        /\ NodeRaises(i)
                   ELSE IF ~thought.d.next_thought_needed
                   THEN LET solution ==
                                ExtractFinalSolution(thought.d, thoughts)
                        IN  /\ ctx' = [c2 EXCEPT !.thoughts = thoughts,
                                                 !.solution = solution]
                            /\ cot' = log
                            /\ NodeReturns(i, CotAction(thought.d), solution,
                                           ThoughtCap(cot.service))
                   ELSE /\ ctx' = [c2 EXCEPT !.thoughts = thoughts]
                        /\ cot' = log
                        /\ NodeReturns(i, CotAction(thought.d), NoneVal,
                                       ThoughtCap(cot.service))

\* cot_node = ChainOfThoughtNode(search_client, max_scraped_urls=...);
\* flow = Flow(cot_node); flow.edge("continue", cot_node);
\* flow.run({}, Params({"problem": problem}))
CotEdges == [a \in {"continue"} |-> StartNode]
ParamsData == {<<>>, [problem |-> "What is 2+2?"]}
CotInit ==
    /\ ctx = EmptyCtx
    /\ \E p \in ParamsData, m \in {1, 5} :
          cot = [params |-> p, max_scraped_urls |-> m, searched |-> <<>>,
                 scrapes |-> <<>>, error |-> "ok", service |-> "any",
                 last |-> NoSearches, llm_calls |-> 0,
              history |-> NoHistory,
              raw |-> NoResponse]

\* The same node over the searching service.
SearchInit ==
    /\ ctx = EmptyCtx
    /\ \E m \in {1, 5} :
          cot = [params |-> [problem |-> "What is 2+2?"],
                 max_scraped_urls |-> m, searched |-> <<>>,
                 scrapes |-> <<>>, error |-> "ok", service |-> "searching",
                 last |-> NoSearches, llm_calls |-> 0,
              history |-> NoHistory,
              raw |-> NoResponse]

CotIdle ==
    /\ ctx = EmptyCtx
    /\ cot = [params |-> <<>>, max_scraped_urls |-> 5, searched |-> <<>>,
              scrapes |-> <<>>, error |-> "ok", service |-> "any",
              last |-> NoSearches, llm_calls |-> 0,
              history |-> NoHistory,
              raw |-> NoResponse]

CotFlowInit ==
    /\ edges = CotEdges
    /\ max_parallel = 0
    /\ fl = <<NewRun>>
    /\ permits = [s \in 0..1 |-> IF s = 0 THEN 0 ELSE DefaultPermits]
    /\ order = <<>>
    /\ batch = NoBatch

(***************************************************************************)
(* utility.py: _parse_llm_response                                         *)
(*                                                                         *)
(* A response text is a sequence of tokens, each standing for this piece   *)
(* of text:                                                                *)
(*   "{" "}" "[" "]" ","  themselves       "sp"    one blank               *)
(*   "m"     "a":1  (an object member)      "key"   "p":  (a member name)  *)
(*   "n"     1                              "w"     x     (a prose word)   *)
(*   "long"  498 times x                    "F"     ```   (a fence)        *)
(*   "json"  json                           "bs"    \     (a backslash)    *)
(***************************************************************************)
TokLen(t) ==
    CASE t = "m" -> 5
      [] t = "key" -> 4
      [] t = "long" -> 498
      [] t = "F" -> 3
      [] t = "json" -> 4
      [] OTHER -> 1

RECURSIVE TextLen(_)
TextLen(t) == IF t = <<>> THEN 0 ELSE TokLen(Head(t)) + TextLen(Tail(t))

\* str.strip(): leading and trailing blanks removed.
RECURSIVE LStrip(_)
LStrip(t) == IF t # <<>> /\ Head(t) = "sp" THEN LStrip(Tail(t)) ELSE t

RECURSIVE RStrip(_)
RStrip(t) ==
    IF t # <<>> /\ t[Len(t)] = "sp" THEN RStrip(SubSeq(t, 1, Len(t) - 1)) ELSE t

Strip(t) == RStrip(LStrip(t))

\* The outcome of one parser or of one strategy: a value, or no value.
NoValue == [kind |-> "none", src |-> <<>>]
Failed == [ok |-> FALSE, value |-> NoValue]
Parsed(kind, src) == [ok |-> TRUE, value |-> [kind |-> kind, src |-> src]]

RECURSIVE SkipWs(_, _)
SkipWs(t, i) == IF i <= Len(t) /\ t[i] = "sp" THEN SkipWs(t, i + 1) ELSE i

NoWs(t) == SelectSeq(t, LAMBDA x : x # "sp")

\* json.loads: the index after the value that starts at i, 0 when there is
\* none.  With plain = TRUE the same grammar also takes bare words as
\* scalars and as members, which is the flow style of YAML.
RECURSIVE ValueEnd(_, _, _), MembersEnd(_, _, _), ElementsEnd(_, _, _)
ValueEnd(t, i, plain) ==
    IF i > Len(t) THEN 0
    ELSE CASE t[i] = "n" -> i + 1
           [] t[i] \in {"w", "long"} -> IF plain THEN i + 1 ELSE 0
           [] t[i] = "{" ->
                LET j == SkipWs(t, i + 1)
                IN  IF j <= Len(t) /\ t[j] = "}" THEN j + 1
                    ELSE MembersEnd(t, j, plain)
           [] t[i] = "[" ->
                LET j == SkipWs(t, i + 1)
                IN  IF j <= Len(t) /\ t[j] = "]" THEN j + 1
                    ELSE ElementsEnd(t, j, plain)
           [] OTHER -> 0

MembersEnd(t, i, plain) ==
    LET e == IF i > Len(t) THEN 0
             ELSE CASE t[i] = "m" -> i + 1
                    [] t[i] \in {"w", "long"} -> IF plain THEN i + 1 ELSE 0
                    [] t[i] = "key" -> ValueEnd(t, SkipWs(t, i + 1), plain)
                    [] OTHER -> 0
        j == SkipWs(t, e)
    IN  IF e = 0 \/ j > Len(t) THEN 0
        ELSE CASE t[j] = "}" -> j + 1
               [] t[j] = "," -> MembersEnd(t, SkipWs(t, j + 1), plain)
               [] OTHER -> 0

ElementsEnd(t, i, plain) ==
    LET e == ValueEnd(t, i, plain)
        j == SkipWs(t, e)
    IN  IF e = 0 \/ j > Len(t) THEN 0
        ELSE CASE t[j] = "]" -> j + 1
               [] t[j] = "," -> ElementsEnd(t, SkipWs(t, j + 1), plain)
               [] OTHER -> 0

KindOf(tok) ==
    CASE tok = "{" -> "dict"
      [] tok = "[" -> "list"
      [] tok = "n" -> "int"
      [] OTHER -> "str"

\* json.loads(text): any JSON value, JSONDecodeError otherwise.
JsonLoads(t) ==
    LET i == SkipWs(t, 1)
        e == ValueEnd(t, i, FALSE)
    IN  IF e # 0 /\ SkipWs(t, e) = Len(t) + 1
        THEN Parsed(KindOf(t[i]), NoWs(t))
        ELSE Failed

\* yaml.safe_load(text): None for an empty document, the value of a flow
\* collection that spans the document, the text itself for a plain scalar,
\* YAMLError for a document that opens with a fence or another indicator.
\* In every text of the model a "key" is followed by "[", never by a blank.
YamlLoad(t) ==
    LET u == Strip(t)
    IN  IF u = <<>> THEN Parsed("NoneType", <<>>)
        ELSE CASE u[1] \in {"{", "["} ->
                    IF ValueEnd(u, 1, TRUE) = Len(u) + 1
                    THEN Parsed(KindOf(u[1]), NoWs(u))
                    ELSE Failed
               [] u[1] \in {"w", "long", "bs", "json"} -> Parsed("str", u)
               [] u[1] = "n" ->
                    IF Len(u) = 1 THEN Parsed("int", u) ELSE Parsed("str", u)
               [] OTHER -> Failed

MinOf(S) == CHOOSE x \in S : \A y \in S : x <= y

\* The first index after i whose token is not a backslash.
AfterBackslashes(t, i) ==
    MinOf({j \in (i + 1)..(Len(t) + 1) : j = Len(t) + 1 \/ t[j] # "bs"})

\* Strategy 2: re.search(r'```(?:json)?\\s*({[\\s\\S]*?})\\s*```').  In that
\* raw string \\ is a literal backslash, s* a run of the letter s and
\* [\\s\\S] one of backslash, s and S; of these the model's texts hold the
\* backslash only.  A match at i is: fence, json or nothing, backslash,
\* "{", backslashes, "}", backslash, fence.
FenceJsonGroup(t, i) ==
    LET a == IF i + 1 <= Len(t) /\ t[i + 1] = "json" THEN i + 2 ELSE i + 1
        j == AfterBackslashes(t, a + 1)
    IN  IF /\ t[i] = "F"
           /\ a + 1 <= Len(t) /\ t[a] = "bs" /\ t[a + 1] = "{"
           /\ j + 2 <= Len(t)
           /\ t[j] = "}" /\ t[j + 1] = "bs" /\ t[j + 2] = "F"
        THEN SubSeq(t, a + 1, j)
        ELSE <<>>

Strategy2(t) ==
    LET at == {i \in 1..Len(t) : FenceJsonGroup(t, i) # <<>>}
    IN  IF at = {} THEN Failed ELSE JsonLoads(FenceJsonGroup(t, MinOf(at)))

\* Strategy 3: from the first "{", count braces up to the one that brings
\* the count back to 0 and load that slice.
RECURSIVE BalanceEnd(_, _, _)
BalanceEnd(t, i, brace_count) ==
    IF i > Len(t) THEN 0
    ELSE CASE t[i] = "{" -> BalanceEnd(t, i + 1, brace_count + 1)
           [] t[i] = "}" ->
                IF brace_count - 1 = 0 THEN i
                ELSE BalanceEnd(t, i + 1, brace_count - 1)
           [] OTHER -> BalanceEnd(t, i + 1, brace_count)

Strategy3(t) ==
    LET braces == {i \in 1..Len(t) : t[i] = "{"}
        start == IF braces = {} THEN 0 ELSE MinOf(braces)
        end == IF start = 0 THEN 0 ELSE BalanceEnd(t, start, 0)
    IN  IF end = 0 THEN Failed ELSE JsonLoads(SubSeq(t, start, end))

\* Strategy 5: re.search(r'```(?:yaml)?\\s*([\\s\\S]*?)\\s*```'), read as
\* Strategy 2's pattern: fence, backslash, backslashes, backslash, fence;
\* the group is what stands between the first and the last backslash.
FenceYamlMatch(t, i) ==
    LET j == AfterBackslashes(t, i)
    IN  t[i] = "F" /\ j >= i + 3 /\ j <= Len(t) /\ t[j] = "F"

Strategy5(t) ==
    LET at == {i \in 1..Len(t) : FenceYamlMatch(t, i)}
        i == MinOf(at)
    IN  IF at = {} THEN Failed
        ELSE YamlLoad(SubSeq(t, i + 2, AfterBackslashes(t, i) - 2))

\* Strategy 6: re.findall(r'{[^{}]*(?:{[^{}]*}[^{}]*)*}'): the brace groups
\* that nest at most one level, left to right, none overlapping.
RECURSIVE GroupEnd(_, _, _)
GroupEnd(t, i, depth) ==
    IF i > Len(t) THEN 0
    ELSE CASE t[i] = "{" -> IF depth = 1 THEN GroupEnd(t, i + 1, 2) ELSE 0
           [] t[i] = "}" -> IF depth = 1 THEN i ELSE GroupEnd(t, i + 1, 1)
           [] OTHER -> GroupEnd(t, i + 1, depth)

RECURSIVE FindAllObjects(_, _)
FindAllObjects(t, i) ==
    IF i > Len(t) THEN <<>>
    ELSE LET e == IF t[i] = "{" THEN GroupEnd(t, i + 1, 1) ELSE 0
         IN  IF e = 0 THEN FindAllObjects(t, i + 1)
             ELSE <<SubSeq(t, i, e)>> \o FindAllObjects(t, e + 1)

RECURSIVE FirstLoadable(_)
FirstLoadable(objects) ==
    IF objects = <<>> THEN Failed
    ELSE IF JsonLoads(Head(objects)).ok THEN JsonLoads(Head(objects))
    ELSE FirstLoadable(Tail(objects))

Strategy6(t) == FirstLoadable(FindAllObjects(t, 1))

\* response_text[:n]: the tokens kept, each with the characters kept of it.
RECURSIVE TakeChars(_, _)
TakeChars(t, n) ==
    IF t = <<>> \/ n <= 0 THEN <<>>
    ELSE IF TokLen(Head(t)) <= n
         THEN <<[tok |-> Head(t), chars |-> TokLen(Head(t))]>>
              \o TakeChars(Tail(t), n - TokLen(Head(t)))
         ELSE <<[tok |-> Head(t), chars |-> n]>>

SampleLimit == 500

NoSample == [head |-> <<>>, dots |-> FALSE]

SampleHeadOnly(t) == [head |-> TakeChars(t, SampleLimit), dots |-> FALSE]

Sample(t) ==
    [head |-> TakeChars(t, SampleLimit), dots |-> TextLen(t) > SampleLimit]

Returned(k, r) ==
    [pc |-> "returned", strategy |-> k, value |-> r.value, sample |-> NoSample]

\* _parse_llm_response: the strategies in order, each returning at once
\* when it yields a value; ValueError with the sample when none did.
ParseLlmResponse(response_text) ==
    LET t == Strip(response_text)
    IN  IF JsonLoads(t).ok THEN Returned(1, JsonLoads(t))
        ELSE IF Strategy2(t).ok THEN Returned(2, Strategy2(t))
        ELSE IF Strategy3(t).ok THEN Returned(3, Strategy3(t))
        ELSE IF YamlLoad(t).ok THEN Returned(4, YamlLoad(t))
        ELSE IF Strategy5(t).ok THEN Returned(5, Strategy5(t))
        ELSE IF Strategy6(t).ok THEN Returned(6, Strategy6(t))
        ELSE [pc |-> "raised", strategy |-> 0, value |-> NoValue,
              sample |-> Sample(t)]

\* The texts of the model: up to MaxSegs of these pieces, one after another.
Segments ==
    { <<"w">>, <<"sp">>, <<"long">>, <<"{">>,
      <<"{", "w", "}">>,
      <<"{", "m", "}">>,
      <<"[", "n", "]">>,
      <<"{", "m", ",", "key", "[">>,
      <<"F", "json", "sp", "{", "m", "}", "sp", "F">>,
      <<"F", "bs", "{", "}", "bs", "F">>,
      <<"F", "bs", "bs", "F">> }

RECURSIVE Flatten(_)
Flatten(segs) == IF segs = <<>> THEN <<>> ELSE Head(segs) \o Flatten(Tail(segs))

Texts == {Flatten(segs) : segs \in UNION {[1..n -> Segments] : n \in 0..MaxSegs}}

ParseIdle ==
    ps = [pc |-> "idle", text |-> <<>>, strategy |-> 0, value |-> NoValue,
          sample |-> NoSample]

ParseInit ==
    \E t \in Texts :
        ps = [pc |-> "called", text |-> t, strategy |-> 0, value |-> NoValue,
              sample |-> NoSample]

ParseCall ==
    /\ ps.pc = "called"
    /\ ps' = [text |-> ps.text] @@ ParseLlmResponse(ps.text)

(***************************************************************************)
(* The web scraper (scraper.py)                                            *)
(***************************************************************************)

\* The URLs handed to the scraper, with what urlparse makes of each.
ScrapeUrls == {"https://a", "http://b", "ftp://a", "https://", "a"}

UrlParse(url) ==
    CASE url = "https://a" -> [scheme |-> "https", netloc |-> "a"]
      [] url = "http://b"  -> [scheme |-> "http", netloc |-> "b"]
      [] url = "ftp://a"   -> [scheme |-> "ftp", netloc |-> "a"]
      [] url = "https://"  -> [scheme |-> "https", netloc |-> ""]
      [] OTHER             -> [scheme |-> "", netloc |-> ""]

\* WebScraper._is_valid_url
IsValidUrl(url) ==
    LET result == UrlParse(url)
    IN  /\ result.scheme # "" /\ result.netloc # ""
        /\ result.scheme \in {"http", "https"}

\* list(dict.fromkeys(urls)): the first occurrences, in order.
RECURSIVE UniqueUrls(_)
UniqueUrls(urls) ==
    IF urls = <<>> THEN <<>>
    ELSE LET front == UniqueUrls(SubSeq(urls, 1, Len(urls) - 1))
             url == urls[Len(urls)]
         IN  IF \E k \in 1..Len(front) : front[k] = url THEN front
             ELSE Append(front, url)

RECURSIVE Pow2(_)
Pow2(n) == IF n = 0 THEN 1 ELSE 2 * Pow2(n - 1)

\* The records scrape_url returns (title, content and links left out).
FailureRecord(url, error) == [url |-> url, success |-> FALSE, error |-> error]
SuccessRecord(url) == [url |-> url, success |-> TRUE, error |-> NoneVal]
NoRecord == [url |-> "", success |-> FALSE, error |-> ""]

\* What one await of client.get, raise_for_status and _parse_content does.
FetchOutcomes == {"ok", "timeout", "request_error", "http_status", "other"}

\* `if attempt < self.max_retries - 1` of the two retrying handlers.
ShouldRetryAlways(attempt, max_retries) == attempt < max_retries
ShouldRetry(attempt, max_retries) == attempt < max_retries - 1

\* The scrape_url coroutine of one URL before its first step.
ScrapeTask(url) ==
    [url |-> url, pc |-> "start", attempt |-> 0, fetches |-> 0, timeouts |-> 0,
     sleeps |-> <<>>, cause |-> "", raised |-> FALSE, record |-> NoRecord]

ScrapeIdle ==
    sc = [pc |-> "idle", urls |-> <<>>, max_retries |-> 0, delay |-> 0,
          tasks |-> <<>>, data |-> <<>>]

\* scrape_multiple_urls up to its await of asyncio.gather.
ScrapeInit ==
    \E n \in 0..MaxUrls, r \in 0..MaxRetries, d \in {1, 2} :
        \E urls \in [1..n -> ScrapeUrls] :
            sc = [pc |-> "gather", urls |-> urls, max_retries |-> r,
                  delay |-> d,
                  tasks |-> [k \in 1..Len(UniqueUrls(urls)) |->
                                ScrapeTask(UniqueUrls(urls)[k])],
                  data |-> <<>>]

TaskDone(k, cause, record) ==
    sc' = [sc EXCEPT !.tasks[k].pc = "done", !.tasks[k].cause = cause,
                     !.tasks[k].record = record]

\* scrape_url from its entry to the first await of client.get.
ScrapeStart(k) ==
    /\ sc.pc = "gather"
    /\ k \in DOMAIN sc.tasks
    /\ sc.tasks[k].pc = "start"
    /\ LET url == sc.tasks[k].url
       IN  IF ~IsValidUrl(url)
           THEN TaskDone(k, "invalid", FailureRecord(url, "Invalid URL format"))
           ELSE IF 0 < sc.max_retries
           THEN sc' = [sc EXCEPT !.tasks[k].pc = "fetch"]
           ELSE TaskDone(k, "exhausted",
                         FailureRecord(url, "Max retries exceeded"))

\* One pass of the try block and the handler its outcome selects.
ScrapeFetch(k) ==
    /\ sc.pc = "gather"
    /\ k \in DOMAIN sc.tasks
    /\ sc.tasks[k].pc = "fetch"
    /\ \E outcome \in FetchOutcomes :
        LET t == sc.tasks[k]
            fetched == [t EXCEPT !.fetches = @ + 1,
                                 !.timeouts = IF outcome = "timeout"
                                              THEN @ + 1 ELSE @,
                                 !.cause = outcome]
            error == CASE outcome = "timeout" -> "Timeout error"
                       [] outcome = "request_error" -> "Request error"
                       [] OTHER -> "Unexpected error"
        IN  IF outcome = "ok"
            THEN sc' = [sc EXCEPT !.tasks[k] =
                           [fetched EXCEPT !.pc = "done",
                                           !.record = SuccessRecord(t.url)]]
            ELSE IF /\ outcome \in {"timeout", "request_error"}
                    /\ ShouldRetry(t.attempt, sc.max_retries)
            THEN sc' = [sc EXCEPT !.tasks[k] =
                           [fetched EXCEPT !.pc = "sleep",
                                !.sleeps = Append(@, sc.delay * Pow2(t.attempt))]]
            ELSE sc' = [sc EXCEPT !.tasks[k] =
                           [fetched EXCEPT !.pc = "done",
                                !.record = FailureRecord(t.url, error)]]

\* asyncio.sleep returns and `continue` takes the next attempt of the range.
ScrapeWake(k) ==
    /\ sc.pc = "gather"
    /\ k \in DOMAIN sc.tasks
    /\ sc.tasks[k].pc = "sleep"
    /\ LET t == sc.tasks[k]
       IN  IF t.attempt + 1 < sc.max_retries
           THEN sc' = [sc EXCEPT !.tasks[k].pc = "fetch",
                                 !.tasks[k].attempt = @ + 1]
           ELSE TaskDone(k, "exhausted",
                         FailureRecord(t.url, "Max retries exceeded"))

\* The loop over the gathered results that fills scraped_data.
ScrapedDataSuccessOnly(tasks) ==
    LET kept == {k \in DOMAIN tasks : tasks[k].record.success}
    IN  [url \in {tasks[k].url : k \in kept} |->
            LET k == CHOOSE j \in kept : tasks[j].url = url
            IN  tasks[k].record]
ScrapedData(tasks) ==
    [url \in {tasks[k].url : k \in DOMAIN tasks} |->
        LET k == CHOOSE j \in DOMAIN tasks : tasks[j].url = url
        IN  IF tasks[k].raised
            THEN FailureRecord(url, "Exception during scraping")
            ELSE tasks[k].record]

\* asyncio.gather(..., return_exceptions=True) completes and the map is
\* returned.
ScrapeGather ==
    /\ sc.pc = "gather"
    /\ \A k \in DOMAIN sc.tasks : sc.tasks[k].pc = "done"
    /\ sc' = [sc EXCEPT !.pc = "returned", !.data = ScrapedData(sc.tasks)]

(***************************************************************************)
(* Sub-agent fan-out (ParallelExploreNode; its source is not in src/, the  *)
(* unit is modelled from section 4.5 of the specification)                 *)
(***************************************************************************)

SubProblems == {"A", "B", "C"}

\* The final value of the sub-run for one sub-problem.
SubResult(sub_problem) ==
    CASE sub_problem = "A" -> "resultA"
      [] sub_problem = "B" -> "resultB"
      [] OTHER             -> "resultC"

\* The parent Contexts of a call: the empty one of demo.py and one that
\* already holds candidates.
ParentContexts == {<<>>, "candidates" :> <<"old">>}

\* One fresh Reasoning State Machine over a shallow copy of the parent
\* Context and its own Params.
SubRun(parent, sub_problem) ==
    [ctx |-> parent @@ ("current_thought_number" :> 0),
     params |-> [problem |-> sub_problem],
     pc |-> "running", value |-> NoneVal]

ExploreIdle ==
    px = [pc |-> "idle", sub_problems |-> <<>>, ctx |-> <<>>, runs |-> <<>>,
          completed |-> <<>>, action |-> NoneVal]

ExploreInit ==
    \E n \in 0..MaxSubProblems, parent \in ParentContexts :
        \E subs \in [1..n -> SubProblems] :
            px = [pc |-> "forked", sub_problems |-> subs, ctx |-> parent,
                  runs |-> [k \in 1..n |-> SubRun(parent, subs[k])],
                  completed |-> <<>>, action |-> NoneVal]

\* One invocation of the reasoning unit in sub-run k: it returns "end" with
\* its final value, or another action and the sub-run loops.
ExploreSubStep(k) ==
    /\ px.pc = "forked"
    /\ k \in DOMAIN px.runs
    /\ px.runs[k].pc = "running"
    /\ LET run == px.runs[k]
           number == run.ctx["current_thought_number"] + 1
           stepped == [run EXCEPT !.ctx["current_thought_number"] = number]
       IN  \E action \in {"continue", "end"} :
            /\ action = "continue" => number < MaxSubVisits
            /\ IF action = "end"
               THEN px' = [px EXCEPT
                       !.runs[k] = [stepped EXCEPT !.pc = "done",
                                       !.value = SubResult(run.params.problem)],
                       !.completed = Append(@, k)]
               ELSE px' = [px EXCEPT !.runs[k] = stepped]

\* The final values of the sub-runs, in input order.
CollectedAsCompleted(runs, completed) ==
    [j \in 1..Len(completed) |-> runs[completed[j]].value]
Collected(runs, completed) == [k \in 1..Len(runs) |-> runs[k].value]

\* The Context after the collected values are appended to `candidates`.
WithCandidates(context, values) ==
    LET old == IF "candidates" \in DOMAIN context THEN context["candidates"]
               ELSE <<>>
    IN  ("candidates" :> (old \o values)) @@ context

\* Every sub-run has ended: the values are appended to the parent Context.
\* With no sub-problem the unit changes nothing and returns "continue".
ExploreCollect ==
    /\ px.pc = "forked"
    /\ \A k \in DOMAIN px.runs : px.runs[k].pc = "done"
    /\ IF px.sub_problems = <<>>
       THEN px' = [px EXCEPT !.pc = "returned", !.action = "continue"]
       ELSE px' = [px EXCEPT !.pc = "returned", !.action = "continue",
                     !.ctx = WithCandidates(@, Collected(px.runs, px.completed))]

(***************************************************************************)
(* The orchestrator loop (main.py).  The reasoning unit it drives returns  *)
(* the actions of section 4.4 of the specification; the auxiliary units,   *)
(* whose source is not in src/, are modelled from sections 4.5 and 4.6.    *)
(***************************************************************************)

\* The actions the reasoning unit returns.
LoopActions == {"continue", "explore", "critique", "revise", "spawn", "end"}

\* The if/elif chain of run_once: the class called for an action.
AuxiliaryUnit ==
    [a \in {"explore", "critique", "revise", "spawn"} |->
        CASE a = "explore"  -> "ParallelExploreNode"
          [] a = "critique" -> "CritiqueNode"
          [] a = "revise"   -> "ReviseNode"
          [] OTHER          -> "SpawnAgentNode"]

Reasoning == "ChainOfThoughtNode"
Raised == "<raised>"

\* Critique routes on the score the completion service gives.
Scores == 1..5
CritiqueAction(score) == IF score < 4 THEN "revise" ELSE "continue"

\* The if/elif chain applied to the action the reasoning unit returned.
Dispatch(action) ==
    IF action \in DOMAIN AuxiliaryUnit THEN AuxiliaryUnit[action]
    ELSE Reasoning

\* What runs after an auxiliary unit has returned `action`: the result is
\* assigned to `_, _` and the while loop starts over.
AfterAuxiliaryRouted(action) == Dispatch(action)
AfterAuxiliary(action) == Reasoning

LoopIdle ==
    lp = [pc |-> "idle", unit |-> NoneVal, invocations |-> 0,
          trace |-> <<>>]

\* run_once up to the first `await cot(ctx, params)`.
LoopInit ==
    lp = [pc |-> "cot", unit |-> Reasoning, invocations |-> 0,
          trace |-> <<>>]

\* `action, value = await cot(ctx, params)` returns, and the branch on the
\* action is taken up to the next await.
LoopCot ==
    /\ lp.pc = "cot"
    /\ \E action \in LoopActions :
        /\ action # "end" => lp.invocations + 1 < MaxLoopVisits
        /\ lp' = [lp EXCEPT
                    !.invocations = @ + 1,
                    !.trace = Append(@, [unit |-> Reasoning, action |-> action]),
                    !.pc = IF action = "end" THEN "exited"
                           ELSE IF Dispatch(action) = Reasoning
                           THEN "cot" ELSE "aux",
                    !.unit = IF action = "end" THEN NoneVal
                             ELSE Dispatch(action)]

\* The awaited unit raises: the exception leaves run_once.
LoopRaises ==
    /\ lp.pc \in {"cot", "aux"}
    /\ lp' = [lp EXCEPT !.pc = "raised", !.unit = NoneVal,
                        !.trace = Append(@, [unit |-> lp.unit, action |-> Raised])]

\* `_, _ = await <auxiliary unit>(ctx, params)` returns: the action and the
\* value are dropped and the loop goes back to the reasoning unit.
LoopAux ==
    /\ lp.pc = "aux"
    /\ \E score \in Scores :
        LET action == IF lp.unit = "CritiqueNode" THEN CritiqueAction(score)
                      ELSE "continue"
            next == AfterAuxiliary(action)
        IN  /\ lp.unit # "CritiqueNode" => score = 1
            /\ lp' = [lp EXCEPT
                        !.trace = Append(@, [unit |-> lp.unit, action |-> action]),
                        !.pc = IF next = Reasoning THEN "cot" ELSE "aux",
                        !.unit = next]

(***************************************************************************)
(* Reasoning-step invocations of sibling runs over one Context:            *)
(* BatchFlow(cot_node).run(ctx, params_list) hands the same ctx to every   *)
(* Flow.run.  An invocation is suspended only at the await of              *)
(* scrape_multiple_urls: _perform_searches has no await and call_llm is a  *)
(* plain call.                                                             *)
(***************************************************************************)

\* The params_list of the batch: one Params per sibling run.
SharedParams == <<[problem |-> "A"], [problem |-> "B"]>>

\* The completion service of the sibling runs: it raises, asks for a search
\* or gives the final answer.
SharedLlmOutcomes ==
    {[raises |-> TRUE, response |-> Response(<<>>, {})],
     [raises |-> FALSE,
      response |-> Response([current_thinking |-> "t",
                             planning |-> <<SearchStep("q1")>>,
                             next_thought_needed |-> TRUE], {})],
     [raises |-> FALSE,
      response |-> Response([current_thinking |-> "t", planning |-> <<>>,
                             next_thought_needed |-> FALSE,
                             final_answer |-> "4"], {})]}

\* The locals of an invocation that is not running.
NoFrame == [pc |-> "none", number |-> 0, problem |-> "", urls |-> <<>>]

SharedIdle == sh = [params_list |-> <<>>, frames |-> <<>>, inits |-> <<>>]

SharedInit ==
    /\ edges = CotEdges
    /\ max_parallel = 0
    /\ fl = [i \in DOMAIN SharedParams |-> NewRun]
    /\ permits = [s \in 0..Len(SharedParams) |->
                     IF s = 0 THEN 0 ELSE DefaultPermits]
    /\ order = <<>>
    /\ batch = [pc |-> "gathering", results |-> <<>>, exc |-> NoExc]
    /\ ctx = EmptyCtx
    /\ cot = [params |-> <<>>, max_scraped_urls |-> 5, searched |-> <<>>,
              scrapes |-> <<>>, error |-> "ok", service |-> "sharing",
              last |-> NoSearches, llm_calls |-> 0, history |-> NoHistory,
              raw |-> NoResponse]
    /\ sh = [params_list |-> SharedParams,
             frames |-> [i \in DOMAIN SharedParams |-> NoFrame],
             inits |-> <<>>]

\* Lines 75-104 of __call__: the call of call_llm, the validation, the
\* append to the list ctx["thoughts"] refers to now, and the return.
\* c: the store as the invocation finds it at this point.
SharedFinish(i, c, number) ==
    \E llm \in SharedLlmOutcomes :
        LET first == IF llm.raises THEN "call_llm raised"
                     ELSE ValidateResponse(llm.response)
            checked == IF first = "ok" THEN llm.response
                       ELSE FixLlmResponse(llm.response)
            error == IF llm.raises \/ first = "ok" THEN first
                     ELSE ValidateResponse(checked)
            thought == Response(DictSet(checked.d, "thought_number", number),
                                checked.illTyped)
            thoughts == Append(c.thoughts, thought)
        IN  IF error # "ok"
            THEN /\ ctx' = StoreOnRaise(c, thoughts)
                 /\ cot' = [cot EXCEPT !.error = error]
                 /\ NodeRaises(i)
            ELSE IF ~thought.d.next_thought_needed
            THEN LET solution == ExtractFinalSolution(thought.d, thoughts)
                 IN  /\ ctx' = [c EXCEPT !.thoughts = thoughts,
                                         !.solution = solution]
                     /\ cot' = cot
                     /\ NodeReturns(i, CotAction(thought.d), solution,
                                    MaxSharedVisits)
            ELSE /\ ctx' = [c EXCEPT !.thoughts = thoughts]
                 /\ cot' = cot
                 /\ NodeReturns(i, CotAction(thought.d), NoneVal,
                                MaxSharedVisits)

\* __call__(ctx, params_list[i]) from its entry: to the await of
\* scrape_multiple_urls if there are URLs to scrape, to its return if not.
SharedStart(i) ==
    /\ i \in DOMAIN fl
    /\ fl[i].pc = "invoke"
    /\ sh.frames[i].pc = "none"
    /\ LET c0 == CtxInitialised(ctx, sh.params_list[i])
           number == c0.current_thought_number + 1
           c1 == [c0 EXCEPT !.current_thought_number = number]
           queries == ExtractSearchQueries(c1.thoughts)
           inits == IF "problem" \in DOMAIN ctx THEN sh.inits
                    ELSE Append(sh.inits, [run |-> i, number |-> number])
       IN  \E outcome \in [DOMAIN queries -> SearchOutcomes] :
           LET sr == PerformSearches(queries, c1.search_results, outcome)
               urls == UrlsToScrape(queries, sr.results, c1.scraped_content,
                                    cot.max_scraped_urls)
               c2 == IF queries = <<>> THEN c1
                     ELSE [c1 EXCEPT
                             !.search_results = DictUpdate(@, sr.results)]
           IN  IF urls # <<>>
               THEN /\ ctx' = c2
                    /\ sh' = [sh EXCEPT !.inits = inits,
                                !.frames[i] = [pc |-> "scraping",
                                               number |-> number,
                                               problem |-> c1.problem,
                                               urls |-> urls]]
                    /\ UNCHANGED <<flowVars, cot>>
               ELSE /\ sh' = [sh EXCEPT !.inits = inits,
                                !.frames[i] = [NoFrame EXCEPT
                                                  !.number = number,
                                                  !.problem = c1.problem]]
                    /\ SharedFinish(i, c2, number)

\* scrape_multiple_urls returns to the suspended invocation, which runs on
\* to its return.
SharedResume(i) ==
    /\ i \in DOMAIN fl
    /\ fl[i].pc = "invoke"
    /\ sh.frames[i].pc = "scraping"
    /\ LET frame == sh.frames[i]
       IN  \E success \in [Range(frame.urls) -> BOOLEAN] :
           LET scraped == [u \in Range(frame.urls) |-> Scraped(u, success[u])]
               c == [ctx EXCEPT !.scraped_content = DictUpdate(@, scraped)]
           IN  /\ sh' = [sh EXCEPT !.frames[i].pc = "none",
                                   !.frames[i].urls = <<>>]
               /\ SharedFinish(i, c, frame.number)

(***************************************************************************)
(* Specifications                                                          *)
(***************************************************************************)

\* One Flow.run over nodes that return any action and value.
InitFlow == FlowInit /\ RetryIdle /\ PlanIdle /\ CotIdle /\ ParseIdle /\ ScrapeIdle /\ ExploreIdle /\ LoopIdle /\ SharedIdle
NextFlow ==
    \/ (FlowAcquire(1) /\ UNCHANGED <<retryVars, planVars, cotVars, parseVars, scrapeVars, exploreVars, loopVars, sharedVars>>)
    \/ (FlowInvoke(1) /\ UNCHANGED <<retryVars, planVars, cotVars, parseVars, scrapeVars, exploreVars, loopVars, sharedVars>>)
    \/ (NodeRaises(1) /\ UNCHANGED <<retryVars, planVars, cotVars, parseVars, scrapeVars, exploreVars, loopVars, sharedVars>>)
SpecFlow == InitFlow /\ [][NextFlow]_vars

\* BatchFlow.run over the same nodes.
InitBatch == BatchInit /\ RetryIdle /\ PlanIdle /\ CotIdle /\ ParseIdle /\ ScrapeIdle /\ ExploreIdle /\ LoopIdle /\ SharedIdle
NextBatch ==
    \/ \E i \in 1..MaxParams : FlowAcquire(i) /\ UNCHANGED <<retryVars, planVars, cotVars, parseVars, scrapeVars, exploreVars, loopVars, sharedVars>>
    \/ \E i \in 1..MaxParams : BatchInvoke(i) /\ UNCHANGED <<retryVars, planVars, cotVars, parseVars, scrapeVars, exploreVars, loopVars, sharedVars>>
    \/ \E i \in 1..MaxParams : NodeRaises(i) /\ UNCHANGED <<retryVars, planVars, cotVars, parseVars, scrapeVars, exploreVars, loopVars, sharedVars>>
    \/ (GatherReturn /\ UNCHANGED <<retryVars, planVars, cotVars, parseVars, scrapeVars, exploreVars, loopVars, sharedVars>>)
    \/ (GatherRaise /\ UNCHANGED <<retryVars, planVars, cotVars, parseVars, scrapeVars, exploreVars, loopVars, sharedVars>>)
SpecBatch == InitBatch /\ [][NextBatch]_vars

\* One call of a Retry node whose inner node fails or succeeds at will.
InitRetry == FlowIdle /\ RetryInit /\ PlanIdle /\ CotIdle /\ ParseIdle /\ ScrapeIdle /\ ExploreIdle /\ LoopIdle /\ SharedIdle
NextRetry ==
    \/ RetryInnerReturns
    \/ RetryInnerRaises
    \/ RetrySleep
SpecRetry == InitRetry /\ [][NextRetry]_vars

\* The plan validator over every plan of at most MaxPlanSteps steps.
InitPlan == FlowIdle /\ RetryIdle /\ PlanInit /\ CotIdle /\ ParseIdle /\ ScrapeIdle /\ ExploreIdle /\ LoopIdle /\ SharedIdle
NextPlan ==
    \/ (PlanAddStep /\ UNCHANGED <<flowVars, retryVars, cotVars, parseVars, scrapeVars, exploreVars, loopVars, sharedVars>>)
    \/ (PlanValidate /\ UNCHANGED <<flowVars, retryVars, cotVars, parseVars, scrapeVars, exploreVars, loopVars, sharedVars>>)
    \/ (PlanRemoveResult /\ UNCHANGED <<flowVars, retryVars, cotVars, parseVars, scrapeVars, exploreVars, loopVars, sharedVars>>)
SpecPlan == InitPlan /\ [][NextPlan]_vars

\* The self-looping flow of flow.py over the reasoning node.
InitCot == CotFlowInit /\ RetryIdle /\ PlanIdle /\ CotInit /\ ParseIdle /\ ScrapeIdle /\ ExploreIdle /\ LoopIdle /\ SharedIdle
NextCot ==
    \/ (FlowAcquire(1) /\ UNCHANGED <<retryVars, planVars, cotVars, parseVars, scrapeVars, exploreVars, loopVars, sharedVars>>)
    \/ (CotInvoke(1) /\ UNCHANGED <<retryVars, planVars, parseVars, scrapeVars, exploreVars, loopVars, sharedVars>>)
SpecCot == InitCot /\ [][NextCot]_vars

\* The same flow over the searching service.
InitSearch == CotFlowInit /\ RetryIdle /\ PlanIdle /\ SearchInit /\ ParseIdle /\ ScrapeIdle /\ ExploreIdle /\ LoopIdle /\ SharedIdle
NextSearch ==
    \/ (FlowAcquire(1) /\ UNCHANGED <<retryVars, planVars, cotVars, parseVars, scrapeVars, exploreVars, loopVars, sharedVars>>)
    \/ (CotInvoke(1) /\ UNCHANGED <<retryVars, planVars, parseVars, scrapeVars, exploreVars, loopVars, sharedVars>>)
SpecSearch == InitSearch /\ [][NextSearch]_vars

\* One call of the response parser on every text of Texts.
InitParse == FlowIdle /\ RetryIdle /\ PlanIdle /\ CotIdle /\ ParseInit /\ ScrapeIdle /\ ExploreIdle /\ LoopIdle /\ SharedIdle
NextParse == ParseCall /\ UNCHANGED <<flowVars, retryVars, planVars, cotVars, scrapeVars, exploreVars, loopVars, sharedVars>>
SpecParse == InitParse /\ [][NextParse]_vars

\* One call of scrape_multiple_urls on every list of at most MaxUrls URLs.
InitScrape == FlowIdle /\ RetryIdle /\ PlanIdle /\ CotIdle /\ ParseIdle /\ ScrapeInit /\ ExploreIdle /\ LoopIdle /\ SharedIdle
NextScrape ==
    \/ \E k \in 1..MaxUrls : ScrapeStart(k) /\ UNCHANGED <<flowVars, retryVars, planVars, cotVars, parseVars, exploreVars, loopVars, sharedVars>>
    \/ \E k \in 1..MaxUrls : ScrapeFetch(k) /\ UNCHANGED <<flowVars, retryVars, planVars, cotVars, parseVars, exploreVars, loopVars, sharedVars>>
    \/ \E k \in 1..MaxUrls : ScrapeWake(k) /\ UNCHANGED <<flowVars, retryVars, planVars, cotVars, parseVars, exploreVars, loopVars, sharedVars>>
    \/ (ScrapeGather /\ UNCHANGED <<flowVars, retryVars, planVars, cotVars, parseVars, exploreVars, loopVars, sharedVars>>)
SpecScrape == InitScrape /\ [][NextScrape]_vars

\* One call of the fan-out unit on every list of at most MaxSubProblems
\* sub-problems.
InitExplore == FlowIdle /\ RetryIdle /\ PlanIdle /\ CotIdle /\ ParseIdle /\ ScrapeIdle /\ ExploreInit /\ LoopIdle /\ SharedIdle
NextExplore ==
    \/ \E k \in 1..MaxSubProblems : ExploreSubStep(k) /\ UNCHANGED <<flowVars, retryVars, planVars, cotVars, parseVars, scrapeVars, loopVars, sharedVars>>
    \/ (ExploreCollect /\ UNCHANGED <<flowVars, retryVars, planVars, cotVars, parseVars, scrapeVars, loopVars, sharedVars>>)
SpecExplore == InitExplore /\ [][NextExplore]_vars

\* run_once over a reasoning unit that returns any action or raises.
InitLoop == FlowIdle /\ RetryIdle /\ PlanIdle /\ CotIdle /\ ParseIdle /\ ScrapeIdle /\ ExploreIdle /\ LoopInit /\ SharedIdle
NextLoop ==
    \/ (LoopCot /\ UNCHANGED <<flowVars, retryVars, planVars, cotVars, parseVars, scrapeVars, exploreVars, sharedVars>>)
    \/ (LoopAux /\ UNCHANGED <<flowVars, retryVars, planVars, cotVars, parseVars, scrapeVars, exploreVars, sharedVars>>)
    \/ (LoopRaises /\ UNCHANGED <<flowVars, retryVars, planVars, cotVars, parseVars, scrapeVars, exploreVars, sharedVars>>)
SpecLoop == InitLoop /\ [][NextLoop]_vars

\* Two sibling runs of a BatchFlow over the reasoning node and one Context.
InitShared == SharedInit /\ RetryIdle /\ PlanIdle /\ ParseIdle /\ ScrapeIdle /\ ExploreIdle /\ LoopIdle
NextShared ==
    \/ \E i \in DOMAIN SharedParams : FlowAcquire(i) /\ UNCHANGED <<retryVars, planVars, parseVars, scrapeVars, exploreVars, loopVars, cotVars, sharedVars>>
    \/ \E i \in DOMAIN SharedParams : SharedStart(i) /\ UNCHANGED <<retryVars, planVars, parseVars, scrapeVars, exploreVars, loopVars>>
    \/ \E i \in DOMAIN SharedParams : SharedResume(i) /\ UNCHANGED <<retryVars, planVars, parseVars, scrapeVars, exploreVars, loopVars>>
    \/ (GatherReturn /\ UNCHANGED <<retryVars, planVars, parseVars, scrapeVars, exploreVars, loopVars, cotVars, sharedVars>>)
    \/ (GatherRaise /\ UNCHANGED <<retryVars, planVars, parseVars, scrapeVars, exploreVars, loopVars, cotVars, sharedVars>>)
SpecShared == InitShared /\ [][NextShared]_vars

(***************************************************************************)
(* Claims: the graph executor                                              *)
(***************************************************************************)

Last(s) == s[Len(s)]

ClaimEdges == [a \in {"continue", "explore"} |->
                  IF a = "continue" THEN "A" ELSE "B"]

\* C1: a run invokes the start node first and then, after every invocation,
\* the node registered for the returned action; it stops at the first action
\* without an edge and returns the value of that last invocation.
C1_FlowRouting ==
    \A i \in DOMAIN fl :
        LET c == fl[i].calls
        IN  /\ c # <<>> => c[1].node = StartNode
            /\ \A k \in 1..(Len(c) - 1) :
                  /\ c[k].action \in DOMAIN edges
                  /\ c[k + 1].node = edges[c[k].action]
            /\ fl[i].pc \in {"acquire", "invoke"} =>
                  IF c = <<>> THEN fl[i].node = StartNode
                  ELSE /\ Last(c).action \in DOMAIN edges
                       /\ fl[i].node = edges[Last(c).action]
            /\ fl[i].pc = "done" =>
                  /\ c # <<>>
                  /\ Last(c).action \notin DOMAIN edges
                  /\ fl[i].result = Last(c).value

\* With edges {continue: A, explore: B} a run has gone S, A and ended on
\* "spawn" with a value that differs from the first invocation's.
C1_Witness ==
    /\ edges = ClaimEdges
    /\ Len(fl) = 1
    /\ fl[1].pc = "done"
    /\ Len(fl[1].calls) = 2
    /\ fl[1].calls[2].node = "A"
    /\ fl[1].calls[2].action = "spawn"
    /\ fl[1].calls[1].value # fl[1].result

\* C8: the list BatchFlow.run returns has one result per Params entry, the
\* i-th being the value the i-th run's last node invocation returned.
C8_BatchResultsInInputOrder ==
    batch.pc = "returned" =>
        /\ Len(batch.results) = Len(fl)
        /\ \A i \in DOMAIN fl :
              /\ fl[i].pc = "done"
              /\ batch.results[i] = Last(fl[i].calls).value

\* The second run finished before the first, with a different value.
C8_Witness ==
    /\ batch.pc = "returned"
    /\ order = <<2, 1>>
    /\ batch.results[1] # batch.results[2]

\* C9: once a run has raised, BatchFlow.run returns no list; what it raises
\* is the exception of a run that failed, and it carries no results.
C9_BatchFailsTogether ==
    /\ (\E i \in DOMAIN fl : fl[i].pc = "failed") => batch.pc # "returned"
    /\ batch.pc = "raised" =>
          /\ batch.results = <<>>
          /\ \E i \in DOMAIN fl :
                fl[i].pc = "failed" /\ batch.exc = fl[i].exc

\* BatchFlow.run has raised although another run had completed before the
\* failing one.
C9_Witness ==
    /\ batch.pc = "raised"
    /\ Len(order) = 2
    /\ fl[order[1]].pc = "done"
    /\ fl[order[2]].pc = "failed"

\* C10: with a shared gate of max_parallel permits, never more than
\* max_parallel node invocations are executing over all the runs.
Executing == {i \in DOMAIN fl : fl[i].pc = "invoke"}
C10_GateBoundsInvocations ==
    max_parallel # 0 => Cardinality(Executing) <= max_parallel

\* One permit: a run executes a node while the other run waits for the gate.
C10_Witness ==
    /\ max_parallel = 1
    /\ Len(fl) = 2
    /\ permits[0] = 0
    /\ fl[1].pc = "acquire"
    /\ fl[2].pc = "invoke"
    /\ fl[1].calls = <<>>

(***************************************************************************)
(* Claims: Retry                                                           *)
(***************************************************************************)

Failures == Cardinality({k \in DOMAIN rt.inner : ~rt.inner[k].ok})

\* C6: inner failing k < tries times and then succeeding is invoked k + 1
\* times with k sleeps and its value is returned; inner is never invoked more
\* than tries times nor again after a success.
C6_RetryUntilSuccess ==
    /\ Len(rt.inner) <= rt.tries
    /\ \A k \in 1..(Len(rt.inner) - 1) : ~rt.inner[k].ok
    /\ Failures < rt.tries => rt.pc # "raised"
    /\ (rt.inner # <<>> /\ Last(rt.inner).ok) =>
          /\ rt.pc = "returned"
          /\ Len(rt.inner) = Failures + 1
          /\ Len(rt.slept) = Failures
          /\ rt.result = Last(rt.inner).ret

\* tries = 3: two failures, then a success, and two sleeps.
C6_Witness ==
    /\ rt.tries = 3
    /\ rt.pc = "returned"
    /\ Len(rt.inner) = 3
    /\ Last(rt.inner).ok
    /\ Len(rt.slept) = 2

\* C7: inner failing on all of its tries invocations makes the wrapper raise
\* the last attempt's exception after tries invocations and tries - 1 sleeps.
C7_RetryExhausted ==
    /\ Failures = rt.tries =>
          /\ rt.pc = "raised"
          /\ rt.exc = rt.tries
    /\ rt.pc = "raised" =>
          /\ Failures = rt.tries
          /\ Len(rt.inner) = rt.tries
          /\ Len(rt.slept) = rt.tries - 1

\* tries = 3: three failures, two sleeps, the third exception raised.
C7_Witness ==
    /\ rt.tries = 3
    /\ rt.pc = "raised"
    /\ rt.exc = 3
    /\ Len(rt.slept) = 2

(***************************************************************************)
(* Claims: plan validation                                                 *)
(***************************************************************************)

AllSteps(plan) == {StepAt(plan, p) : p \in StepPaths(plan)}

\* The claim's plans: every step has a description and a recognised status.
WellFormedSteps(plan) ==
    \A st \in AllSteps(plan) :
        /\ "description" \in DOMAIN st
        /\ "status" \in DOMAIN st
        /\ st.status \in ValidStatuses

\* The companion field of the step's status is present and non-empty.
CompanionOk(st) ==
    /\ st.status = "Done" => "result" \in DOMAIN st /\ st.result \notin {"", NoneVal}
    /\ st.status = "Search Needed" =>
          "query" \in DOMAIN st /\ st.query \notin {"", NoneVal}
    /\ st.status = "Verification Needed" =>
          "mark" \in DOMAIN st /\ st.mark \notin {"", NoneVal}

\* C4: for a plan whose steps all have a description and a recognised status,
\* validation succeeds iff every step at every depth has the companion field
\* of its status present and non-empty; so deleting the result of a Done step
\* of a valid plan, at any depth, makes validation fail.
C4_ValidateIffCompanions ==
    pv.res # "none" =>
        /\ WellFormedSteps(pv.plan) =>
              (pv.res = "ok" <=> \A st \in AllSteps(pv.plan) : CompanionOk(st))
        /\ pv.removed # <<>> => pv.res # "ok"

\* The result of a Done step two levels down was deleted from a valid plan
\* and the validator has rejected the plan.
C4_Witness ==
    /\ pv.removed # <<>>
    /\ Len(pv.removed) = 3
    /\ pv.res = "Done without result"
    /\ WellFormedSteps(pv.plan)

\* The first of a step's own checks that fails, in the order description,
\* status, companion field; "ok" if none does.
OwnViolation(st) ==
    IF "description" \notin DOMAIN st THEN "missing description"
    ELSE IF "status" \notin DOMAIN st THEN "missing status"
    ELSE IF st.status \notin ValidStatuses THEN "invalid status"
    ELSE IF ~CompanionOk(st)
    THEN CASE st.status = "Done" -> "Done without result"
           [] st.status = "Search Needed" -> "Search Needed without query"
           [] OTHER -> "Verification Needed without mark"
    ELSE "ok"

\* Depth-first pre-order on positions: a step comes before its descendants,
\* and these before its next sibling.
PreOrderBefore(p, q) ==
    \/ Len(p) < Len(q) /\ SubSeq(q, 1, Len(p)) = p
    \/ \E k \in 1..Len(p) :
          /\ k <= Len(q)
          /\ SubSeq(p, 1, k - 1) = SubSeq(q, 1, k - 1)
          /\ p[k] < q[k]

Violations(plan) ==
    {p \in StepPaths(plan) : OwnViolation(StepAt(plan, p)) # "ok"}

\* C31: the validator raises the error of the first step, in depth-first
\* pre-order, one of whose own checks fails, and that error is the first of
\* the step's failing checks in the order description, status, companion
\* field; it succeeds when no step has a failing check.
C31_FirstViolationInPreOrder ==
    pv.res # "none" =>
        IF Violations(pv.plan) = {} THEN pv.res = "ok"
        ELSE \E p \in Violations(pv.plan) :
                /\ \A q \in Violations(pv.plan) \ {p} : PreOrderBefore(p, q)
                /\ pv.res = OwnViolation(StepAt(pv.plan, p))

\* A sub-step of the first step and the second top-level step both fail,
\* with different errors, and the error raised is the sub-step's.
C31_Witness ==
    /\ pv.res # "none"
    /\ Violations(pv.plan) = {<<1, 1>>, <<2>>}
    /\ OwnViolation(StepAt(pv.plan, <<2>>)) = "missing description"
    /\ pv.res = "Search Needed without query"

(***************************************************************************)
(* Claims: the reasoning node                                              *)
(***************************************************************************)

\* C2: an invocation whose validated response has next_thought_needed false
\* sets ctx["solution"] to the response's final answer and returns ("end",
\* that solution); one whose response has it true returns without touching
\* ctx["solution"], which is still None as long as every thought has it true.
C2_FinalAnswerEndsRun ==
    /\ \A k \in DOMAIN fl[1].calls :
          LET call == fl[1].calls[k]
              th == ctx.thoughts[k].d
          IN  IF ~th.next_thought_needed
              THEN /\ call.action = "end"
                   /\ call.value = th.final_answer
                   /\ ctx.solution = th.final_answer
              ELSE call.action # "end" /\ call.value = NoneVal
    /\ ("thoughts" \in DOMAIN ctx
        /\ \A k \in DOMAIN ctx.thoughts : ctx.thoughts[k].d.next_thought_needed)
          => ctx.solution = NoneVal

\* The first call on the empty Context got the answer "4".
C2_Witness ==
    /\ Len(fl[1].calls) = 1
    /\ fl[1].calls[1].action = "end"
    /\ ctx.problem = "What is 2+2?"
    /\ ctx.solution = "4"
    /\ ctx.thoughts[1].d.thought_number = 1

\* C3: in the self-looping flow the node is invoked again after every action
\* but "end"; the run stops at the first "end", invokes nothing after it and
\* returns the solution stored in the Context.
C3_EndIsSoleTerminal ==
    LET c == fl[1].calls
    IN  /\ \A k \in DOMAIN c : c[k].node = StartNode
        /\ \A k \in 1..(Len(c) - 1) : c[k].action # "end"
        /\ fl[1].pc = "done" =>
              /\ c # <<>>
              /\ Last(c).action = "end"
              /\ fl[1].result = ctx.solution
        /\ (c # <<>> /\ Last(c).action # "end") =>
              /\ fl[1].pc \in {"acquire", "invoke", "failed"}
              /\ fl[1].node = StartNode

\* The node went round once on "continue" and the run ended on "end".
C3_Witness ==
    /\ fl[1].pc = "done"
    /\ Len(fl[1].calls) = 2
    /\ fl[1].calls[1].action = "continue"
    /\ fl[1].result = "4"

\* C5: every Thought in ctx["thoughts"] has current_thinking (a string),
\* planning (a list), next_thought_needed (a boolean), a final_answer when
\* that is false, and a plan whose steps all have, at every depth, a
\* description, a recognised status and its non-empty companion field.
ValidThought(t) ==
    /\ t.illTyped = {}
    /\ Range(RequiredFields) \subseteq DOMAIN t.d
    /\ ~t.d.next_thought_needed => "final_answer" \in DOMAIN t.d
    /\ WellFormedSteps(t.d.planning)
    /\ \A st \in AllSteps(t.d.planning) : CompanionOk(st)
C5_ThoughtsAreValid ==
    "thoughts" \in DOMAIN ctx =>
        \A k \in DOMAIN ctx.thoughts : ValidThought(ctx.thoughts[k])

\* A response whose sub-step lacked its result was repaired and recorded,
\* and a later response that stayed invalid was rejected.
C5_Witness ==
    /\ "thoughts" \in DOMAIN ctx
    /\ Len(ctx.thoughts) = 1
    /\ Len(ctx.thoughts[1].d.planning) = 1
    /\ "sub_steps" \in DOMAIN ctx.thoughts[1].d.planning[1]
    /\ DictGet(ctx.thoughts[1].d.planning[1].sub_steps[1], "result")
          = "Completed"
    /\ fl[1].pc = "failed"
    /\ cot.error = "Verification Needed without mark"

(***************************************************************************)
(* Claims: the response parser                                             *)
(***************************************************************************)

ParseDone == ps.pc \in {"returned", "raised"}

\* A fenced block as the strategy list describes it: a fence, an optional
\* tag, blanks, the body, blanks, the next fence.  FencedObject is the
\* shortest body that opens with "{" and ends with "}" before the closing
\* fence, FencedBody the whole body; <<>> stands for no block.
FencedObjectAt(t, i) ==
    LET a == IF i + 1 <= Len(t) /\ t[i + 1] = "json" THEN i + 2 ELSE i + 1
        b == SkipWs(t, a)
        ends == {j \in (b + 1)..Len(t) :
                    /\ t[j] = "}"
                    /\ SkipWs(t, j + 1) <= Len(t)
                    /\ t[SkipWs(t, j + 1)] = "F"}
    IN  IF t[i] = "F" /\ b <= Len(t) /\ t[b] = "{" /\ ends # {}
        THEN SubSeq(t, b, MinOf(ends))
        ELSE <<>>

FencedJson(t) ==
    LET at == {i \in 1..Len(t) : FencedObjectAt(t, i) # <<>>}
    IN  IF at = {} THEN Failed ELSE JsonLoads(FencedObjectAt(t, MinOf(at)))

FencedYaml(t) ==
    LET fences == {i \in 1..Len(t) : t[i] = "F"}
        i == MinOf(fences)
        j == MinOf(fences \ {i})
    IN  IF Cardinality(fences) < 2 THEN Failed
        ELSE YamlLoad(SubSeq(t, i + 1, j - 1))

\* The six strategies as the strategy list names them.
NamedStrategies(t) ==
    << JsonLoads(t), FencedJson(t), Strategy3(t),
       YamlLoad(t), FencedYaml(t), Strategy6(t) >>

\* C11: the parser returns the value of the lowest-numbered strategy, of
\* (1) whole text as JSON, (2) JSON inside a fenced block, (3) first balanced
\* brace group, (4) whole text as YAML, (5) YAML inside a fenced block,
\* (6) each brace group in turn, that yields a value, and raises only when
\* none does.
C11_LowestStrategyWins ==
    ParseDone =>
        LET r == NamedStrategies(Strip(ps.text))
            won == {k \in 1..6 : r[k].ok}
        IN  IF won = {} THEN ps.pc = "raised"
            ELSE ps.pc = "returned" /\ ps.value = r[MinOf(won)].value

NoStrategyYields(t) ==
    /\ ~JsonLoads(t).ok /\ ~Strategy2(t).ok /\ ~Strategy3(t).ok
    /\ ~YamlLoad(t).ok /\ ~Strategy5(t).ok /\ ~Strategy6(t).ok

RECURSIVE SumChars(_)
SumChars(head) ==
    IF head = <<>> THEN 0 ELSE Head(head).chars + SumChars(Tail(head))

\* C12: when all six strategies fail the parser raises and returns no value;
\* the sample is the first 500 characters of the stripped text, with "..."
\* exactly when the stripped text is longer than 500 characters.
C12_FailureCarriesSample ==
    ParseDone /\ NoStrategyYields(Strip(ps.text)) =>
        LET t == Strip(ps.text)
            head == ps.sample.head
        IN  /\ ps.pc = "raised"
            /\ ps.value = NoValue
            /\ SumChars(head) = (IF TextLen(t) < 500 THEN TextLen(t) ELSE 500)
            /\ Len(head) <= Len(t)
            /\ \A k \in 1..Len(head) :
                    /\ head[k].tok = t[k]
                    /\ head[k].chars >= 1
                    /\ k < Len(head) => head[k].chars = TokLen(t[k])
            /\ ps.sample.dots = (TextLen(t) > 500)

\* A text longer than 500 characters failed: the sample is cut and marked.
C12_Witness ==
    /\ ps.pc = "raised"
    /\ TextLen(Strip(ps.text)) > 500
    /\ SumChars(ps.sample.head) = 500
    /\ ps.sample.dots

\* C13: whenever the parser returns, the value is a dict; prose and the
\* empty response never yield a value of another type.
C13_ReturnsOnlyDicts == ps.pc = "returned" => ps.value.kind = "dict"

Count(t, tok) == Len(SelectSeq(t, LAMBDA x : x = tok))

RECURSIVE Repeat(_, _)
Repeat(tok, n) == IF n <= 0 THEN <<>> ELSE <<tok>> \o Repeat(tok, n - 1)

\* The closers the repair is said to append: one "]" for every unmatched
\* "[", then one "}" for every unmatched "{".
Closers(t) ==
    Repeat("]", Count(t, "[") - Count(t, "]"))
    \o Repeat("}", Count(t, "{") - Count(t, "}"))

\* C15: a truncated JSON text, one that becomes JSON once its missing
\* closers are appended, is parsed as that completed text instead of failing.
C15_TruncatedJsonIsCompleted ==
    LET t == Strip(ps.text)
    IN  ParseDone /\ ~JsonLoads(t).ok /\ JsonLoads(t \o Closers(t)).ok =>
            /\ ps.pc = "returned"
            /\ ps.value = JsonLoads(t \o Closers(t)).value

(***************************************************************************)
(* Claims: the reasoning step, its counter and its collaborators           *)
(***************************************************************************)

\* C14: when the response of a model call cannot be parsed or validated the
\* step calls the model again, and a fatal error leaves the step only after
\* 3 calls of the model have failed.
C14_FatalAfterThreeAttempts ==
    \A i \in DOMAIN fl : fl[i].pc = "failed" => cot.llm_calls = 3

NamedAction(d) == IF "action" \in DOMAIN d THEN d.action ELSE "continue"

\* C16: an invocation whose response has next_thought_needed = true returns
\* the action that response names, "continue" when it names none.
C16_ReturnsNamedAction ==
    \A i \in DOMAIN fl : \A k \in DOMAIN fl[i].calls :
        ctx.thoughts[k].d.next_thought_needed =>
            fl[i].calls[k].action = NamedAction(ctx.thoughts[k].d)

\* The invocations of the node run i has made: those that returned and the
\* one that raised.
Invocations(i) == Len(fl[i].calls) + (IF fl[i].pc = "failed" THEN 1 ELSE 0)

\* C17: within a run the counter current_thought_number is the number of
\* invocations made, so it grows by exactly 1 with each and never decreases;
\* the k-th thought has thought_number k, so the first has 1 and the numbers
\* strictly increase along ctx["thoughts"].
C17_ThoughtNumbersCountInvocations ==
    "problem" \in DOMAIN ctx =>
        /\ ctx.current_thought_number = Invocations(1)
        /\ \A k \in DOMAIN ctx.thoughts : ctx.thoughts[k].d.thought_number = k

\* Three invocations have run and each has recorded its thought.
C17_Witness ==
    /\ "problem" \in DOMAIN ctx
    /\ ctx.current_thought_number = 3
    /\ Len(ctx.thoughts) = 3
    /\ ctx.thoughts[3].d.thought_number = 3

C19_CachedQueryNotSearchedAgain ==
    /\ \A i, j \in DOMAIN cot.searched :
          cot.searched[i].query = cot.searched[j].query =>
              cot.searched[i].number = cot.searched[j].number
    /\ \A i \in DOMAIN cot.searched :
          cot.searched[i].query \in DOMAIN ctx.search_results

\* The search of a query failed in invocation 2; invocation 3 asked for the
\* query again and got the empty list without a call of the client.
C19_Witness ==
    \E i \in DOMAIN cot.searched :
        /\ ~cot.searched[i].ok
        /\ cot.searched[i].number = 2
        /\ ctx.current_thought_number = 3
        /\ cot.searched[i].query \in Range(cot.last.queries)
        /\ cot.last.results[cot.searched[i].query] = <<>>
        /\ \A j \in DOMAIN cot.searched : cot.searched[j].number # 3

AllScraped == Concat(cot.scrapes, Len(cot.scrapes))

\* C20: the URL lists handed to the scraper over a run hold no URL twice,
\* neither within a list nor across lists; every URL handed over is a key of
\* ctx["scraped_content"] afterwards, and the list of an invocation holds
\* only URLs among the first max_scraped_urls results of one of its queries.
C20_EachUrlScrapedOnce ==
    /\ \A i, j \in DOMAIN AllScraped : i # j => AllScraped[i] # AllScraped[j]
    /\ \A i \in DOMAIN AllScraped : AllScraped[i] \in DOMAIN ctx.scraped_content
    /\ \A k \in DOMAIN cot.last.urls :
          \E q \in DOMAIN cot.last.results :
              \E j \in DOMAIN cot.last.results[q] :
                  /\ j <= cot.max_scraped_urls
                  /\ cot.last.results[q][j].url = cot.last.urls[k]
    /\ cot.last.urls # <<>> => cot.last.urls = Last(cot.scrapes)

\* u1 was handed over once and its fetch failed; a later invocation whose
\* results hold u1 and u2 handed over u2 only.
C20_Witness ==
    /\ cot.scrapes = << <<"u1">>, <<"u2">> >>
    /\ ctx.scraped_content["u1"].title = "Error"
    /\ cot.last.urls = <<"u2">>
    /\ \E q \in DOMAIN cot.last.results :
          /\ Len(cot.last.results[q]) = 2
          /\ cot.last.results[q][1].url = "u1"
          /\ cot.max_scraped_urls = 5

(***************************************************************************)
(* Claims: the executor's frames and the join of BatchFlow                 *)
(***************************************************************************)

\* C26: the _visit frames of one run that have been entered and have not
\* yet returned, each holding a permit, number at most 1, however many node
\* invocations the run makes.
C26_VisitFramesBounded == \A i \in DOMAIN fl : fl[i].depth <= 1

\* C27: BatchFlow.run raises only after every Flow.run it launched has
\* finished, so no run is still acquiring a permit or invoking a node once
\* the batch has raised.
C27_BatchJoinsBeforeRaising ==
    batch.pc = "raised" => \A i \in DOMAIN fl : fl[i].pc \in {"done", "failed"}

\* C29: the history text of an invocation covers the last min(10, n)
\* thoughts of ctx["thoughts"], n being the number recorded when the
\* invocation starts.
C29_HistoryCoversLastTen ==
    LET n == cot.history.recorded
    IN  Len(cot.history.covered) = (IF n < 10 THEN n ELSE 10)

\* C35: under BatchFlow.run with max_parallel >= 1, as long as a run is
\* unfinished some run can take a step: one is invoking a node, or one waits
\* for a permit that is free.
C35_BatchNeverStuck ==
    (batch.pc = "gathering" /\ max_parallel >= 1) =>
        \/ \A i \in DOMAIN fl : fl[i].pc \in {"done", "failed"}
        \/ \E i \in DOMAIN fl :
              \/ fl[i].pc = "invoke"
              \/ fl[i].pc = "acquire" /\ permits[SemOf(i)] > 0

(***************************************************************************)
(* Claims: sibling runs over one Context                                   *)
(***************************************************************************)

\* C28: with the invocations of sibling runs interleaved at the scrape
\* await, the thought numbers in ctx["thoughts"] are pairwise distinct and
\* increase strictly in list order.
C28_ThoughtNumbersIncrease ==
    "thoughts" \in DOMAIN ctx =>
        \A j, k \in DOMAIN ctx.thoughts :
            j < k => ctx.thoughts[j].d.thought_number
                         < ctx.thoughts[k].d.thought_number

\* C30: the Context is initialised by one invocation only, the first, which
\* takes the problem from its Params and sets the five other keys; every
\* other invocation, of a run with another Params too, reads that problem
\* and leaves it as it is.
C30_ProblemTakenOnce ==
    /\ Len(sh.inits) <= 1
    /\ "problem" \in DOMAIN ctx <=> sh.inits # <<>>
    /\ "problem" \in DOMAIN ctx =>
        /\ DOMAIN ctx = {"problem", "thoughts", "current_thought_number",
                         "solution", "search_results", "scraped_content"}
        /\ sh.inits[1].number = 1
        /\ ctx.problem = sh.params_list[sh.inits[1].run].problem
        /\ \A i \in DOMAIN sh.frames :
              sh.frames[i].number > 0 => sh.frames[i].problem = ctx.problem

\* Run 1 made the first invocation, and run 2, whose Params carry "B", has
\* made a later one on the problem "A".
C30_Witness ==
    /\ "problem" \in DOMAIN ctx
    /\ sh.inits[1].run = 1
    /\ sh.frames[2].number > 1
    /\ sh.params_list[2].problem = "B"
    /\ sh.frames[2].problem = "A"
    /\ ctx.problem = "A"

(***************************************************************************)
(* Claims: the web scraper                                                 *)
(***************************************************************************)

InputUrls == {sc.urls[k] : k \in DOMAIN sc.urls}

TaskOf(url) == sc.tasks[CHOOSE k \in DOMAIN sc.tasks : sc.tasks[k].url = url]

\* C21: scrape_multiple_urls raises for no URL: the map it returns has
\* exactly one record per distinct input URL, the record of a URL whose fetch
\* failed (invalid URL, timeout, request error, HTTP error status or any
\* other exception) has success = false and an error message, and the record
\* of a URL whose fetch succeeded has success = true whatever happened to the
\* other URLs.
C21_OneRecordPerUrl ==
    /\ \A k \in DOMAIN sc.tasks : ~sc.tasks[k].raised
    /\ sc.pc = "returned" =>
        /\ DOMAIN sc.data = InputUrls
        /\ \A url \in InputUrls :
            /\ sc.data[url].url = url
            /\ sc.data[url].success = (TaskOf(url).cause = "ok")
            /\ ~sc.data[url].success => sc.data[url].error \notin {"", NoneVal}

C21_Witness ==
    /\ sc.pc = "returned"
    /\ \E u, v \in InputUrls :
        /\ sc.data[u].success
        /\ ~sc.data[v].success /\ TaskOf(v).cause = "http_status"

\* C22: scrape_url makes at most max_retries fetch attempts and ends with a
\* record; the sleep after a timeout or request error on attempt i lasts
\* delay * 2^i; a URL every fetch of which timed out has been fetched exactly
\* max_retries times with exactly max_retries - 1 sleeps when its
\* success = false record is returned.
C22_BoundedRetries ==
    \A k \in DOMAIN sc.tasks :
        LET t == sc.tasks[k]
        IN  /\ t.fetches <= sc.max_retries
            /\ t.pc \in {"fetch", "sleep"} => t.fetches < sc.max_retries
            /\ t.pc = "done" => t.record.url = t.url
            /\ \A i \in DOMAIN t.sleeps : t.sleeps[i] = sc.delay * Pow2(i - 1)
            /\ (t.pc = "done" /\ t.fetches >= 1 /\ t.timeouts = t.fetches) =>
                /\ t.fetches = sc.max_retries
                /\ Len(t.sleeps) = sc.max_retries - 1
                /\ ~t.record.success

C22_Witness ==
    \E k \in DOMAIN sc.tasks :
        /\ sc.tasks[k].pc = "done"
        /\ sc.max_retries = 3
        /\ sc.tasks[k].timeouts = 3
        /\ sc.tasks[k].fetches = 3
        /\ sc.delay = 2
        /\ sc.tasks[k].sleeps = <<2, 4>>
        /\ sc.tasks[k].record = FailureRecord(sc.tasks[k].url, "Timeout error")

(***************************************************************************)
(* Claims: the sub-agent fan-out                                           *)
(***************************************************************************)

\* C23: when ParallelExplore returns, the candidates of the parent Context
\* are those it held at the call followed by one result per sub-problem in
\* input order, whatever the order in which the sub-runs completed; with no
\* sub-problem the Context is left as it was and "continue" is returned.
C23_CandidatesInInputOrder ==
    px.pc = "returned" =>
        \E parent \in ParentContexts :
            /\ \A k \in DOMAIN px.runs :
                   /\ DOMAIN parent \subseteq DOMAIN px.runs[k].ctx
                   /\ \A key \in DOMAIN parent :
                          px.runs[k].ctx[key] = parent[key]
            /\ IF px.sub_problems = <<>>
               THEN px.ctx = parent /\ px.action = "continue"
               ELSE /\ DOMAIN px.ctx = DOMAIN parent \cup {"candidates"}
                    /\ px.ctx["candidates"] =
                          (IF "candidates" \in DOMAIN parent
                           THEN parent["candidates"] ELSE <<>>)
                          \o [k \in 1..Len(px.sub_problems) |->
                                 SubResult(px.sub_problems[k])]

\* The three sub-runs of [A, B, C] completed in the order C, A, B.
C23_Witness ==
    /\ px.pc = "returned"
    /\ px.sub_problems = <<"A", "B", "C">>
    /\ px.completed = <<3, 1, 2>>
    /\ px.ctx["candidates"] = <<"resultA", "resultB", "resultC">>

C23_EmptyWitness ==
    px.pc = "returned" /\ px.sub_problems = <<>> /\ px.ctx = <<>>

(***************************************************************************)
(* Claims: the orchestrator loop                                           *)
(***************************************************************************)

\* The unit the loop is about to await, if any.
Awaited == IF lp.pc \in {"cot", "aux"} THEN lp.unit ELSE NoneVal

C25_LoopShape ==
    LET n == Len(lp.trace)
    IN  /\ lp.pc \in {"cot", "aux", "exited", "raised"}
        /\ \A k \in 1..n :
            (lp.trace[k].action \in {"end", Raised}) => k = n
        /\ lp.pc = "exited" <=>
              (n > 0 /\ Last(lp.trace) = [unit |-> Reasoning, action |-> "end"])
        /\ lp.pc = "raised" <=> (n > 0 /\ Last(lp.trace).action = Raised)
        /\ lp.pc \in {"exited", "raised"} => Awaited = NoneVal
        /\ n > 0 => lp.trace[1].unit = Reasoning
        /\ \A k \in 1..n :
            LET e == lp.trace[k]
                next == IF k < n THEN lp.trace[k + 1].unit ELSE Awaited
            IN  e.action \notin {"end", Raised} =>
                    IF e.unit = Reasoning THEN next = Dispatch(e.action)
                    ELSE next = Reasoning
        /\ lp.invocations =
              Cardinality({k \in 1..n : lp.trace[k].unit = Reasoning
                                          /\ lp.trace[k].action # Raised})

\* Two auxiliary units have run, each followed by the reasoning unit, and the
\* loop has been left on "end".
C25_Witness ==
    /\ lp.pc = "exited"
    /\ Len(lp.trace) = 5
    /\ lp.trace[2].unit = "CritiqueNode" /\ lp.trace[2].action = "revise"
    /\ lp.trace[3].unit = Reasoning
    /\ lp.trace[4].unit = "SpawnAgentNode"

(***************************************************************************)
(* Claims: the queries of an invocation                                    *)
(***************************************************************************)

\* The queries of the Search Needed steps, at any depth, of the thought that
\* was the most recent one when the latest invocation started.
QueriesOfCurrentPlan ==
    LET n == cot.history.recorded
    IN  IF n = 0 THEN {}
        ELSE {st.query : st \in {x \in AllSteps(ctx.thoughts[n].d.planning) :
                                     x.status = "Search Needed"}}

\* C33: the queries an invocation resolves are exactly those of the Search
\* Needed steps, at any depth, of the most recent thought's plan; earlier
\* thoughts and steps of another status add none, and an invocation that
\* finds no thought searches nothing.
C33_QueriesOfCurrentPlan ==
    /\ Range(cot.last.queries) = QueriesOfCurrentPlan
    /\ DOMAIN cot.last.results = QueriesOfCurrentPlan
    /\ \A k \in DOMAIN cot.searched :
          /\ cot.searched[k].number > 1
          /\ cot.searched[k].number = ctx.current_thought_number =>
                cot.searched[k].query \in QueriesOfCurrentPlan

\* The third invocation resolves q1 alone: the first thought asked for q1
\* and q2, the second for q1 after a Done step that carries the query q2.
C33_Witness ==
    /\ cot.history.recorded = 2
    /\ Range(PlanQueries(ctx.thoughts[1].d.planning, 1)) = {"q1", "q2"}
    /\ ctx.thoughts[2].d.planning[1].status = "Done"
    /\ ctx.thoughts[2].d.planning[1].query = "q2"
    /\ cot.last.queries = <<"q1">>

\* C34: within one invocation the search client is called at most once for
\* each distinct query string, also when several steps carry the same query.
C34_OneSearchPerQuery ==
    \A j, k \in DOMAIN cot.searched :
        (/\ cot.searched[j].number = cot.searched[k].number
         /\ cot.searched[j].query = cot.searched[k].query) => j = k

(***************************************************************************)
(* Claims: the recorded thoughts                                           *)
(***************************************************************************)

\* d.get(key, default)
DictGetOr(d, key, default) == IF key \in DOMAIN d THEN d[key] ELSE default

\* ctx["thoughts"], empty while the Context is not initialised.
Thoughts(c) == IF "thoughts" \in DOMAIN c THEN c.thoughts ELSE <<>>

\* C32: every invocation leaves the thoughts already recorded as they are,
\* in number, order and content, and appends at most one thought.
C32_ThoughtsAppendOnly ==
    [][/\ Len(Thoughts(ctx')) \in {Len(Thoughts(ctx)), Len(Thoughts(ctx)) + 1}
       /\ SubSeq(Thoughts(ctx'), 1, Len(Thoughts(ctx))) = Thoughts(ctx)]_vars

\* A second thought has been appended after a first one that carries a plan.
C32_Witness ==
    /\ Len(Thoughts(ctx)) = 2
    /\ ctx.thoughts[1].d.planning # <<>>
    /\ ctx.thoughts[2].d.thought_number = 2

\* The step is an invocation of run 1 that raises.
Raises == fl[1].pc = "invoke" /\ fl'[1].pc = "failed"

\* C36 as stated: an invocation that raises leaves ctx["thoughts"],
\* ctx["solution"] and ctx["problem"], present or absent, exactly as they
\* were.
C36_RaiseLeavesKeysAsTheyWere ==
    [][Raises =>
          \A key \in {"thoughts", "solution", "problem"} :
              /\ key \in DOMAIN ctx' <=> key \in DOMAIN ctx
              /\ key \in DOMAIN ctx => ctx'[key] = ctx[key]]_vars

\* C36, amended: an invocation that raises on an initialised Context leaves
\* the three keys exactly as they were; one that raises on a Context without
\* "problem" leaves them as the initialisation sets them: the problem of the
\* Params, no thought, no solution.
C36_RaiseAppendsNothing ==
    [][Raises =>
          IF "problem" \in DOMAIN ctx
          THEN \A key \in {"thoughts", "solution", "problem"} :
                  ctx'[key] = ctx[key]
          ELSE /\ ctx'.thoughts = <<>>
               /\ ctx'.solution = NoneVal
               /\ ctx'.problem = DictGetOr(cot.params, "problem", "")]_vars

\* The second invocation has raised and the first thought is still the only
\* one.
C36_Witness ==
    /\ fl[1].pc = "failed"
    /\ ctx.current_thought_number = 2
    /\ Len(ctx.thoughts) = 1
    /\ ctx.thoughts[1].d.thought_number = 1
    /\ ctx.solution = NoneVal

\* C37: after any invocations, those that raised included, the counter
\* current_thought_number is the number of recorded thoughts and the k-th
\* thought has thought_number k.
C37_NumbersContiguous ==
    "problem" \in DOMAIN ctx =>
        /\ ctx.current_thought_number = Len(ctx.thoughts)
        /\ \A k \in DOMAIN ctx.thoughts : ctx.thoughts[k].d.thought_number = k

\* The plan with the default companion field supplied to every step that
\* lacks the one its status requires, sub_steps of every depth included.
RECURSIVE WithCompanions(_)
WithCompanions(steps) ==
    [k \in DOMAIN steps |->
        LET a == FixDefault(steps[k], "Done", "result", "Completed")
            b == FixDefault(a, "Search Needed", "query", "information needed")
            c == FixDefault(b, "Verification Needed", "mark",
                            "Verification required")
        IN  IF "sub_steps" \in DOMAIN c
            THEN DictSet(c, "sub_steps", WithCompanions(c.sub_steps))
            ELSE c]

\* The response fails validation, and only because steps of its plan lack
\* the companion field of their status.
LacksOnlyCompanions(r) ==
    /\ r # NoResponse
    /\ ValidateResponseNoPlan(r) = "ok"
    /\ ValidatePlan(r.d.planning) # "ok"
    /\ ValidatePlan(WithCompanions(r.d.planning)) = "ok"

\* C38: an invocation whose response lacks only companion fields, at
\* whatever depth of the plan, does not raise: the thought is appended and
\* its plan is valid.
C38_FixSuppliesEveryCompanion ==
    (cot.llm_calls = 1 /\ LacksOnlyCompanions(cot.raw)) =>
        /\ cot.error = "ok"
        /\ ctx.thoughts # <<>>
        /\ ValidatePlan(ctx.thoughts[Len(ctx.thoughts)].d.planning) = "ok"

\* b to the n-th power.
RECURSIVE Power(_, _)
Power(b, n) == IF n = 0 THEN 1 ELSE b * Power(b, n - 1)

\* C39: the sleeps of a Retry, as fractions of the backoff: the first lasts
\* the backoff; with jitter disabled the k-th lasts 1.5^(k-1) times the
\* backoff; with jitter enabled each lasts between 0.75 and 1.5 times the
\* one before it.
C39_SleepsGrowByHalf ==
    \A k \in DOMAIN rt.slept :
        LET d == rt.slept[k]
        IN  /\ k = 1 => d.num = d.den
            /\ ~rt.jitter => d.num * Power(2, k - 1) = d.den * Power(3, k - 1)
            /\ (rt.jitter /\ k > 1) =>
                  LET e == rt.slept[k - 1]
                  IN  /\ 3 * e.num * d.den <= 4 * d.num * e.den
                      /\ 2 * d.num * e.den <= 3 * e.num * d.den

====
